---- MODULE Spec2Model ----
(***************************************************************************)
(* Resilient provider invocation layer of scripts/multi_llm_debater.py:    *)
(* error classification, retry with exponential backoff, the per-run       *)
(* deadline, and the single provider fallback.                             *)
(*                                                                         *)
(* The specifications of the module:                                       *)
(*   Spec          one call of run_phase_with_fallback, from its arguments *)
(*                 to the value it returns or the exception it raises;     *)
(*   SpecClassify  classify_error and should_fallback applied to error     *)
(*                 messages assembled from fragments;                      *)
(*   SpecParse     robust_json_parse applied to response texts assembled   *)
(*                 from parts;                                             *)
(*   SpecInterleaved  two calls of run_phase_with_fallback interleaved at  *)
(*                 their awaits;                                           *)
(*   SpecHealth    test_provider_availability, run_pre_debate_health_checks *)
(*                 and the command line flow of main;                      *)
(*   SpecHooks     hooks/validate_debate_args.py and                       *)
(*                 hooks/validate_debate_output.py run on a command;       *)
(*   SpecRetry     with_retry under asyncio.wait_for, for several          *)
(*                 RetryConfig values, with a log of its events.           *)
(* Error messages and response texts are strings; substring matching and   *)
(* lower-casing are computed character by character.                       *)
(***************************************************************************)
EXTENDS Integers, Sequences, FiniteSets, TLC

VARIABLES
    \* ---- one call of run_phase_with_fallback ----
    pc,               \* position of the call
    provider,         \* argument: primary Provider (enum value)
    phase,            \* argument: phase identifier
    fallback_config,  \* argument: FallbackConfig
    run,              \* which run_phase call is active: "primary" / "fallback"
    run_provider,     \* provider argument of the active run_phase call
    attempt,          \* with_retry loop variable
    retry_attempts,   \* run_phase local list filled by on_retry
    now,              \* seconds since the active run's wait_for started
    wake,             \* time at which the pending await would resume
    result,           \* dict held in result (empty before the first run ends)
    event,            \* FallbackEvent built before the fallback run
    fallback_history, \* run_phase_with_fallback local list
    raised,           \* exception propagating out of the call (NONE if none)
    runs,             \* log: provider of each run_phase call entered, in order
    calls,            \* log: Model Backend calls made, in order
    run_results,      \* log: how each run_phase call ended and the dict it returned
    \* ---- classify_error / should_fallback as pure functions ----
    c_stage,          \* "off" / "building" / "classified" / "decided"
    c_msg,            \* error message under construction
    c_nfrag,          \* fragments appended so far
    c_kind,           \* classify_error(c_msg)
    c_outcome,        \* dict handed to should_fallback
    c_fb,             \* should_fallback(c_outcome)
    \* ---- robust_json_parse as a pure function ----
    p_stage,          \* "off" / "building" / "parsed"
    p_text,           \* response text under construction
    p_nparts,         \* parts appended so far
    p_result,         \* robust_json_parse(p_text)
    \* ---- calls of run_phase_with_fallback interleaved on one event loop ----
    k_pc,               \* position of each call
    k_provider,         \* provider argument of each call
    k_run,              \* "primary" / "fallback" for each call
    k_attempt,          \* with_retry loop variable of each call
    k_retry_attempts,   \* the retry_attempts lists, by frame
    k_fallback_history, \* the fallback_history lists, by frame
    k_event,            \* FallbackEvent built by each call
    k_result,           \* dict held in result by each call
    k_made,             \* log: records and events each call itself produced
    \* ---- health probes and the command line flow ----
    h_mode,            \* entry point: "probe" / "checks" / "main"
    h_pc,              \* position of the entry point's code
    h_args,            \* its arguments
    h_env,             \* environment variables holding a non-empty value
    h_requested,       \* requested_providers of run_pre_debate_health_checks
    h_tasks,           \* provider names test_provider_availability is called with
    h_probe,           \* per name: "idle" / "canary" / "done"
    h_status,          \* per name: the ProviderStatus returned
    h_health_results,  \* dict returned by run_pre_debate_health_checks
    h_warning,         \* pre_debate_warning of main
    h_effective,       \* effective_provider of main
    h_stdout,          \* objects printed to standard output
    h_stderr,          \* objects printed to standard error
    h_exit,            \* exit status of the process
    h_cred,            \* log: names validate_api_keys was called with
    h_canary,          \* log: names a canary request was sent for
    h_canary_result,   \* log: per name, what its canary request did
    h_phase_calls,     \* log: providers run_phase was called with
    \* ---- the command hooks ----
    g_hook,            \* "args" (validate_debate_args) / "output" (validate_debate_output)
    g_pc,              \* "input": standard input being written / "done"
    g_stdin,           \* "json" / "not_json": what standard input holds
    g_head,            \* start of tool_input.command
    g_args,            \* arguments appended to it, in order
    g_captured,        \* tool_output.stdout
    g_stdout,          \* objects the hook printed to standard output
    g_stderr,          \* warnings the hook printed to standard error
    g_exit,            \* exit status of the hook
    \* ---- one call of with_retry under asyncio.wait_for ----
    r_pc,              \* "off" / "calling" / "sleeping" / "done"
    r_config,          \* the RetryConfig passed
    r_timeout,         \* timeout of asyncio.wait_for, seconds
    r_attempt,         \* attempt of the loop of with_retry
    r_now,             \* seconds since the call began
    r_wake,            \* time at which the pending await is resumed
    r_log,             \* log: calls, failures, callbacks and sleeps, with times
    r_outcome,         \* how the call ended: returned / raised / timeout
    r_abandoned        \* the call of func cancelled by the timeout, if any

invVars == <<pc, provider, phase, fallback_config, run, run_provider, attempt,
             retry_attempts, now, wake, result, event, fallback_history,
             raised, runs, calls, run_results>>
clsVars == <<c_stage, c_msg, c_nfrag, c_kind, c_outcome, c_fb>>
prsVars == <<p_stage, p_text, p_nparts, p_result>>
conVars == <<k_pc, k_provider, k_run, k_attempt, k_retry_attempts,
             k_fallback_history, k_event, k_result, k_made>>
hltVars == <<h_mode, h_pc, h_args, h_env, h_requested, h_tasks, h_probe,
             h_status, h_health_results, h_warning, h_effective, h_stdout,
             h_stderr, h_exit, h_cred, h_canary, h_canary_result,
             h_phase_calls>>
hokVars == <<g_hook, g_pc, g_stdin, g_head, g_args, g_captured, g_stdout,
             g_stderr, g_exit>>
rtyVars == <<r_pc, r_config, r_timeout, r_attempt, r_now, r_wake, r_log,
             r_outcome, r_abandoned>>
extVars == <<hokVars, rtyVars>>
auxVars == <<prsVars, conVars, hltVars, extVars>>
vars == <<invVars, clsVars, auxVars>>

\* Python's None.
NONE == "<none>"

Min(S) == CHOOSE x \in S : \A y \in S : x <= y

(***************************************************************************)
(* Strings                                                                 *)
(***************************************************************************)

\* p in s for Python strings.
Contains(s, p) ==
    \E i \in 1..(Len(s) - Len(p) + 1) : SubSeq(s, i, i + Len(p) - 1) = p

UpperToLower ==
    [c \in {"A","B","C","D","E","F","G","H","I","J","K","L","M",
            "N","O","P","Q","R","S","T","U","V","W","X","Y","Z"} |->
        CASE c = "A" -> "a" [] c = "B" -> "b" [] c = "C" -> "c" [] c = "D" -> "d"
          [] c = "E" -> "e" [] c = "F" -> "f" [] c = "G" -> "g" [] c = "H" -> "h"
          [] c = "I" -> "i" [] c = "J" -> "j" [] c = "K" -> "k" [] c = "L" -> "l"
          [] c = "M" -> "m" [] c = "N" -> "n" [] c = "O" -> "o" [] c = "P" -> "p"
          [] c = "Q" -> "q" [] c = "R" -> "r" [] c = "S" -> "s" [] c = "T" -> "t"
          [] c = "U" -> "u" [] c = "V" -> "v" [] c = "W" -> "w" [] c = "X" -> "x"
          [] c = "Y" -> "y" [] c = "Z" -> "z"]

\* The lower case form of a one-character string.
LowerChar(c) == IF c \in DOMAIN UpperToLower THEN UpperToLower[c] ELSE c

RECURSIVE LowerFrom(_, _)
\* The lower case form of the characters of s from the i-th on.
LowerFrom(s, i) ==
    IF i > Len(s) THEN "" ELSE LowerChar(SubSeq(s, i, i)) \o LowerFrom(s, i + 1)

\* str.lower()
lower(s) == LowerFrom(s, 1)

(***************************************************************************)
(* Error classification                                                    *)
(***************************************************************************)

\* The dicts keep insertion order; each is a sequence of (key, patterns).
FALLBACK_ERROR_PATTERNS == <<
    [error_type |-> "rate_limit",
     patterns |-> <<"rate limit", "429", "too many requests", "rate-limit">>],
    [error_type |-> "quota",
     patterns |-> <<"quota exceeded", "quota", "billing", "insufficient credits">>],
    [error_type |-> "timeout",
     patterns |-> <<"timeout", "timed out", "deadline exceeded">>],
    [error_type |-> "service_unavailable",
     patterns |-> <<"503", "service unavailable", "temporarily unavailable">>],
    [error_type |-> "overloaded",
     patterns |-> <<"overloaded", "capacity", "busy", "try again later">>] >>

\* HARD_FAILURE_PATTERNS with the invalid_input group ahead of the auth group.
HARD_FAILURE_PATTERNS_input_first == <<
    [error_type |-> "invalid_input",
     patterns |-> <<"invalid", "malformed", "bad request", "400">>],
    [error_type |-> "auth",
     patterns |-> <<"401", "403", "api key", "authentication", "unauthorized",
                    "invalid key">>],
    [error_type |-> "content_policy",
     patterns |-> <<"content policy", "safety", "blocked", "harmful", "refused">>] >>

HARD_FAILURE_PATTERNS == <<
    [error_type |-> "auth",
     patterns |-> <<"401", "403", "api key", "authentication", "unauthorized",
                    "invalid key">>],
    [error_type |-> "invalid_input",
     patterns |-> <<"invalid", "malformed", "bad request", "400">>],
    [error_type |-> "content_policy",
     patterns |-> <<"content policy", "safety", "blocked", "harmful", "refused">>] >>

\* Keys of a pattern dict.
Keys(groups) == {groups[i].error_type : i \in DOMAIN groups}

\* any(p in error_lower for p in patterns)
AnyPatternIn(patterns, error_lower) ==
    \E j \in DOMAIN patterns : Contains(error_lower, patterns[j])

\* The for error_type, patterns in groups.items() loop: the key of the first
\* group with a matching pattern, NONE when the loop falls through.
FirstMatch(groups, error_lower) ==
    LET hits == {i \in DOMAIN groups : AnyPatternIn(groups[i].patterns, error_lower)}
    IN  IF hits = {} THEN NONE ELSE groups[Min(hits)].error_type

\* classify_error with the two loops in the opposite order.
classify_error_hard_first(error_message) ==
    LET error_lower == lower(error_message)
        hard == FirstMatch(HARD_FAILURE_PATTERNS, error_lower)
        soft == FirstMatch(FALLBACK_ERROR_PATTERNS, error_lower)
    IN  IF hard # NONE THEN hard
        ELSE IF soft # NONE THEN soft
        ELSE "unknown"

\* The two loops of classify_error over the lower-cased message.
ClassifyLower(error_lower) ==
    LET soft == FirstMatch(FALLBACK_ERROR_PATTERNS, error_lower)
        hard == FirstMatch(HARD_FAILURE_PATTERNS, error_lower)
    IN  IF soft # NONE THEN soft
        ELSE IF hard # NONE THEN hard
        ELSE "unknown"

\* error_lower = error_message.lower() is computed once, then matched.
classify_error(error_message) ==
    CHOOSE kind \in {ClassifyLower(error_lower) :
                         error_lower \in {lower(error_message)}} : TRUE

\* A dict is a record whose domain is the set of keys present; a key holding
\* None is modelled as absent (the code reads both through .get / or).
EmptyDict == [k \in {} |-> NONE]

\* d[key] = value
SetKey(d, key, value) ==
    [k \in DOMAIN d \cup {key} |-> IF k = key THEN value ELSE d[k]]

\* dict.get(key, default)
Get(d, key, default) == IF key \in DOMAIN d THEN d[key] ELSE default

\* should_fallback answering yes for every Failure.
should_fallback_any_failure(res) == Get(res, "success", FALSE) # TRUE

\* should_fallback without the explicit timeout test.
should_fallback_no_timeout_rule(res) ==
    IF Get(res, "success", FALSE) = TRUE THEN FALSE
    ELSE classify_error(Get(res, "error", "")) \in Keys(FALLBACK_ERROR_PATTERNS)

should_fallback(res) ==
    IF Get(res, "success", FALSE) = TRUE THEN FALSE
    ELSE LET error == Get(res, "error", "")
             error_type == Get(res, "error_type", "")
         IN  IF error_type = "timeout" THEN TRUE
             ELSE classify_error(error) \in Keys(FALLBACK_ERROR_PATTERNS)

(***************************************************************************)
(* Response normalisation                                                  *)
(***************************************************************************)

\* Python indexes from 0: s[a:b] and s.find(p, start).
Slice(s, a, b) ==
    LET lo == IF a < 0 THEN 0 ELSE a
        hi == IF b > Len(s) THEN Len(s) ELSE b
    IN  IF lo >= hi THEN "" ELSE SubSeq(s, lo + 1, hi)
CharAt(s, i) == SubSeq(s, i + 1, i + 1)

find(s, p, start) ==
    LET hits == {i \in start..(Len(s) - Len(p)) : Slice(s, i, i + Len(p)) = p}
    IN  IF hits = {} THEN -1 ELSE Min(hits)

\* Characters matched by \s and stripped by str.strip().
Whitespace == {" ", "\t", "\n", "\r", "\f"}

WordChars ==
    {"a","b","c","d","e","f","g","h","i","j","k","l","m","n","o","p","q","r",
     "s","t","u","v","w","x","y","z","0","1","2","3","4","5","6","7","8","9","_"}
        \cup DOMAIN UpperToLower

Digits == {"0","1","2","3","4","5","6","7","8","9"}

\* First index in i..Len(s)-1 whose character is not in skip, else Len(s).
SkipWhile(s, i, skip) ==
    LET stop == {k \in i..(Len(s) - 1) : CharAt(s, k) \notin skip}
    IN  IF stop = {} THEN (IF i > Len(s) THEN i ELSE Len(s)) ELSE Min(stop)

\* str.strip()
strip(s) ==
    LET keep == {k \in 0..(Len(s) - 1) : CharAt(s, k) \notin Whitespace}
    IN  IF keep = {} THEN ""
        ELSE Slice(s, Min(keep), (CHOOSE x \in keep : \A y \in keep : y <= x) + 1)

RECURSIVE SubCommaBefore(_, _, _)
\* re.sub(r',\s*<closer>', '<closer>', s), scanning from index i.
SubCommaBefore(s, i, closer) ==
    IF i >= Len(s) THEN ""
    ELSE LET j == SkipWhile(s, i + 1, Whitespace)
         IN  IF CharAt(s, i) = "," /\ j < Len(s) /\ CharAt(s, j) = closer
             THEN closer \o SubCommaBefore(s, j + 1, closer)
             ELSE CharAt(s, i) \o SubCommaBefore(s, i + 1, closer)

fix_trailing_commas(text) ==
    SubCommaBefore(SubCommaBefore(text, 0, "}"), 0, "]")

RECURSIVE QuoteKeysFrom(_, _)
\* re.sub(r'(?<=[{,\s])(\w+)(?=\s*:)', r'"\1"', s), scanning from index i.
QuoteKeysFrom(s, i) ==
    IF i >= Len(s) THEN ""
    ELSE LET e == SkipWhile(s, i, WordChars)              \* end of the \w+ run
             c == SkipWhile(s, e, Whitespace)             \* where ':' must be
             behind == i > 0 /\ CharAt(s, i - 1) \in ({"{", ","} \cup Whitespace)
         IN  IF behind /\ e > i /\ c < Len(s) /\ CharAt(s, c) = ":"
             THEN "\"" \o Slice(s, i, e) \o "\"" \o QuoteKeysFrom(s, e)
             ELSE CharAt(s, i) \o QuoteKeysFrom(s, i + 1)

fix_unquoted_keys(text) == QuoteKeysFrom(text, 0)

\* The backquote cannot be written in a string of this language: in every text
\* of the model the character ^ stands for it, so FENCE is the three-backquote
\* code fence.
FENCE == "^^^"
FENCE_JSON == "^^^json"

\* Number of occurrences of character c in s[a..b].
CountChar(s, a, b, c) == Cardinality({k \in a..b : CharAt(s, k) = c})

\* extract_json_block that never looks for a code fence.
extract_json_block_no_fence(text) ==
    LET brace_start == find(text, "{", 0)
        closes == {i \in brace_start..(Len(text) - 1) :
                      /\ CharAt(text, i) = "}"
                      /\ CountChar(text, brace_start, i, "{")
                             = CountChar(text, brace_start, i, "}")}
    IN  IF brace_start >= 0 /\ closes # {}
        THEN Slice(text, brace_start, Min(closes) + 1)
        ELSE text

extract_json_block(text) ==
    LET js == find(text, FENCE_JSON, 0) + 7
        je == find(text, FENCE, js)
        fs == find(text, FENCE, 0) + 3
        fe == find(text, FENCE, fs)
        brace_start == find(text, "{", 0)
        closes == {i \in brace_start..(Len(text) - 1) :
                      /\ CharAt(text, i) = "}"
                      /\ CountChar(text, brace_start, i, "{")
                             = CountChar(text, brace_start, i, "}")}
    IN  IF Contains(text, FENCE_JSON) /\ je > js THEN strip(Slice(text, js, je))
        ELSE IF Contains(text, FENCE) /\ fe > fs THEN strip(Slice(text, fs, fe))
        ELSE IF brace_start >= 0 /\ closes # {}
             THEN Slice(text, brace_start, Min(closes) + 1)
        ELSE text

(***************************************************************************)
(* json.loads, for texts without backslash escapes, exponents or the       *)
(* NaN/Infinity literals.  A parse yields [ok, val, next] or [ok, err, at].*)
(***************************************************************************)

JsonWs == {" ", "\t", "\n", "\r"}

Fail(msg, pos) == [ok |-> FALSE, err |-> msg, at |-> pos]
Done(v, pos) == [ok |-> TRUE, val |-> v, next |-> pos]

\* The closing quote found at index `close` (-1: none) for the string literal
\* opened at index i; `ctrl` holds the control characters of its body.
StringFrom(s, i, close, ctrl) ==
    IF close < 0 THEN Fail("Unterminated string starting at", i)
    ELSE IF ctrl # {} THEN Fail("Invalid control character at", Min(ctrl))
    ELSE IF find(s, "\\", i + 1) \in (i + 1)..close
         THEN Fail("Invalid \\escape", find(s, "\\", i + 1))
    ELSE Done([t |-> "str", v |-> Slice(s, i + 1, close)], close + 1)

\* A string literal starting at the opening quote at index i.
ParseString(s, i) ==
    StringFrom(s, i, find(s, "\"", i + 1),
               {k \in (i + 1)..(find(s, "\"", i + 1) - 1) :
                    CharAt(s, k) \in {"\n", "\t", "\r", "\f"}})

\* The number whose digits start at index d0 and whose integer part ends
\* before d1; i is where the number starts (at its sign, if any).
NumberFrom(s, i, d0, d1) ==
    IF d0 >= Len(s) \/ CharAt(s, d0) \notin Digits THEN Fail("Expecting value", i)
    ELSE IF d1 + 1 < Len(s) /\ CharAt(s, d1) = "." /\ CharAt(s, d1 + 1) \in Digits
         THEN Done([t |-> "num", v |-> Slice(s, i, SkipWhile(s, d1 + 1, Digits))],
                   SkipWhile(s, d1 + 1, Digits))
    ELSE Done([t |-> "num", v |-> Slice(s, i, d1)], d1)

\* End of the integer part starting at index d0: a lone 0, or a run of digits.
IntEnd(s, d0) ==
    IF d0 < Len(s) /\ CharAt(s, d0) = "0" THEN d0 + 1 ELSE SkipWhile(s, d0, Digits)

\* A number starting at index i (a digit or a minus sign).
ParseNumber(s, i) ==
    IF CharAt(s, i) = "-" THEN NumberFrom(s, i, i + 1, IntEnd(s, i + 1))
    ELSE NumberFrom(s, i, i, IntEnd(s, i))

RECURSIVE ParseValue(_, _), ParseMembers(_, _, _), ParseItems(_, _, _)
RECURSIVE AfterKey(_, _, _), AfterMember(_, _, _, _), AfterItem(_, _, _)

\* The object opened at index i - 1, j its first non-blank index.
ObjectFrom(s, j) ==
    IF j < Len(s) /\ CharAt(s, j) = "}" THEN Done([t |-> "obj", v |-> <<>>], j + 1)
    ELSE ParseMembers(s, j, <<>>)

\* The array opened at index i - 1, j its first non-blank index.
ArrayFrom(s, j) ==
    IF j < Len(s) /\ CharAt(s, j) = "]" THEN Done([t |-> "arr", v |-> <<>>], j + 1)
    ELSE ParseItems(s, j, <<>>)

\* A JSON value starting at index i (whitespace already skipped).
ParseValue(s, i) ==
    IF i >= Len(s) THEN Fail("Expecting value", i)
    ELSE IF CharAt(s, i) = "\"" THEN ParseString(s, i)
    ELSE IF CharAt(s, i) = "{" THEN ObjectFrom(s, SkipWhile(s, i + 1, JsonWs))
    ELSE IF CharAt(s, i) = "[" THEN ArrayFrom(s, SkipWhile(s, i + 1, JsonWs))
    ELSE IF Slice(s, i, i + 4) = "true" THEN Done([t |-> "lit", v |-> "true"], i + 4)
    ELSE IF Slice(s, i, i + 5) = "false" THEN Done([t |-> "lit", v |-> "false"], i + 5)
    ELSE IF Slice(s, i, i + 4) = "null" THEN Done([t |-> "lit", v |-> "null"], i + 4)
    ELSE IF CharAt(s, i) \in Digits \cup {"-"} THEN ParseNumber(s, i)
    ELSE Fail("Expecting value", i)

\* Object members from index i (where a key must start), acc the members
\* parsed so far.
ParseMembers(s, i, acc) ==
    IF i >= Len(s) \/ CharAt(s, i) # "\""
    THEN Fail("Expecting property name enclosed in double quotes", i)
    ELSE AfterKey(s, ParseString(s, i), acc)

\* k is the parse of a key; the colon and the member's value follow.
AfterKey(s, k, acc) ==
    IF ~k.ok THEN k
    ELSE IF SkipWhile(s, k.next, JsonWs) >= Len(s)
            \/ CharAt(s, SkipWhile(s, k.next, JsonWs)) # ":"
         THEN Fail("Expecting ':' delimiter", SkipWhile(s, k.next, JsonWs))
    ELSE AfterMember(s, k.val.v,
             ParseValue(s, SkipWhile(s, SkipWhile(s, k.next, JsonWs) + 1, JsonWs)),
             acc)

\* v is the parse of the value of member `key`; a comma or the closing brace
\* follows.
AfterMember(s, key, v, acc) ==
    IF ~v.ok THEN v
    ELSE IF SkipWhile(s, v.next, JsonWs) < Len(s)
            /\ CharAt(s, SkipWhile(s, v.next, JsonWs)) = "}"
         THEN Done([t |-> "obj", v |-> Append(acc, <<key, v.val>>)],
                   SkipWhile(s, v.next, JsonWs) + 1)
    ELSE IF SkipWhile(s, v.next, JsonWs) < Len(s)
            /\ CharAt(s, SkipWhile(s, v.next, JsonWs)) = ","
         THEN ParseMembers(s, SkipWhile(s, SkipWhile(s, v.next, JsonWs) + 1, JsonWs),
                           Append(acc, <<key, v.val>>))
    ELSE Fail("Expecting ',' delimiter", SkipWhile(s, v.next, JsonWs))

\* Array items from index i (where a value must start), acc the items parsed
\* so far.
ParseItems(s, i, acc) == AfterItem(s, ParseValue(s, i), acc)

\* v is the parse of an item; a comma or the closing bracket follows.
AfterItem(s, v, acc) ==
    IF ~v.ok THEN v
    ELSE IF SkipWhile(s, v.next, JsonWs) < Len(s)
            /\ CharAt(s, SkipWhile(s, v.next, JsonWs)) = "]"
         THEN Done([t |-> "arr", v |-> Append(acc, v.val)],
                   SkipWhile(s, v.next, JsonWs) + 1)
    ELSE IF SkipWhile(s, v.next, JsonWs) < Len(s)
            /\ CharAt(s, SkipWhile(s, v.next, JsonWs)) = ","
         THEN ParseItems(s, SkipWhile(s, SkipWhile(s, v.next, JsonWs) + 1, JsonWs),
                         Append(acc, v.val))
    ELSE Fail("Expecting ',' delimiter", SkipWhile(s, v.next, JsonWs))

\* r is the parse of the document's value: only whitespace may follow it.
WholeDocument(s, r) ==
    IF ~r.ok THEN r
    ELSE IF SkipWhile(s, r.next, JsonWs) < Len(s)
         THEN Fail("Extra data", SkipWhile(s, r.next, JsonWs))
    ELSE r

\* json.loads(s): the value, or the JSONDecodeError.
json_loads(s) == WholeDocument(s, ParseValue(s, SkipWhile(s, 0, JsonWs)))

\* str(JSONDecodeError), without its line/column part.
DecodeErrorText(r) == r.err \o ": (char " \o ToString(r.at) \o ")"

\* The list with fix_commas ahead of extract_block.
StrategyNames_commas_first == <<"direct", "fix_commas", "extract_block", "fix_keys">>

\* The (name, transform) list of robust_json_parse.
StrategyNames == <<"direct", "extract_block", "fix_commas", "fix_keys">>

Transform(name, text) ==
    CASE name = "direct" -> text
      [] name = "extract_block" -> extract_json_block(text)
      [] name = "fix_commas" -> fix_trailing_commas(extract_json_block(text))
      [] name = "fix_keys" ->
             fix_unquoted_keys(fix_trailing_commas(extract_json_block(text)))

\* The loop of robust_json_parse from strategy n on: the first parse that
\* succeeds, or the wrapper once the list is exhausted (last_error is the
\* error of the strategy before n).
RECURSIVE TryFrom(_, _, _)
TryStrategy(n, text, parsed) ==
    IF parsed.ok
    THEN [parsed |-> TRUE, data |-> parsed.val, strategy_used |-> StrategyNames[n]]
    ELSE TryFrom(n + 1, text, DecodeErrorText(parsed))

TryFrom(n, text, last_error) ==
    IF n > Len(StrategyNames)
    THEN [parsed |-> FALSE,
          raw_response |-> text,
          parse_error |-> last_error,
          strategies_tried |-> StrategyNames]
    ELSE TryStrategy(n, text, json_loads(Transform(StrategyNames[n], text)))

robust_json_parse(text) == TryFrom(1, text, NONE)

(***************************************************************************)
(* Configuration                                                           *)
(***************************************************************************)

RETRY_CONFIG ==
    [max_attempts |-> 3, base_delay |-> 1, max_delay |-> 30, exponential_base |-> 2]

TIMEOUT_CONFIG ==
    [initial_research |-> 180, round_claim |-> 90, round_claim_attack |-> 90,
     prep_defense |-> 180, round_defense |-> 90]

\* TimeoutConfig.get
TIMEOUT_CONFIG_get(ph) ==
    IF ph \in DOMAIN TIMEOUT_CONFIG THEN TIMEOUT_CONFIG[ph] ELSE 90

\* The "+ 10" added to the phase timeout in run_phase's wait_for.
RETRY_BUFFER == 10

\* Provider enum members are named by their value.
PROVIDER_MAP ==
    [claude |-> "claude", gpt |-> "codex", codex |-> "codex", gemini |-> "gemini"]

\* PROVIDER_MAP.get(name)
PROVIDER_MAP_get(name) ==
    IF name \in DOMAIN PROVIDER_MAP THEN PROVIDER_MAP[name] ELSE NONE

\* Keys of PHASE_PROMPTS.
PHASE_PROMPTS ==
    {"initial_research", "round_claim", "round_claim_attack", "prep_defense",
     "round_defense"}

(***************************************************************************)
(* Environment: arguments of the call and behaviour of the Model Backend   *)
(***************************************************************************)

\* Provider arguments: the trusted backend and one other.
Providers == {"claude", "codex"}

\* Two known phases with different timeouts, and one unknown identifier.
Phases == {"initial_research", "round_claim", "closing_statement"}

\* fallback_provider names: known ones, an alias, and one PROVIDER_MAP lacks.
FallbackNames == {"claude", "gpt", "mistral"}

\* Seconds a Model Backend call takes before it returns or raises; the last
\* exceeds every deadline (a call that hangs).
Durations == {1, 97, 400}

\* Exceptions a Model Backend call raises: (class name, str(e)).
BackendErrors ==
    { [type |-> "RuntimeError", msg |-> "429 Too Many Requests"],
      [type |-> "RuntimeError", msg |-> "401 Unauthorized"],
      [type |-> "TimeoutError", msg |-> ""],
      [type |-> "NonRetryableError", msg |-> "Service Unavailable"] }

\* Results a Model Backend call returns: llm.run's result object.  text is
\* absent when the object holds None there.
BackendReplies ==
    { [success |-> TRUE, text |-> "{\"core_thesis\": \"X\"}"],
      [success |-> TRUE, text |-> "^^^json\n{\"core_thesis\": \"X\"}\n^^^"],
      [success |-> TRUE, text |-> "I cannot answer that."],
      [success |-> FALSE, text |-> "", error |-> "429 Too Many Requests"],
      [success |-> FALSE, error |-> "503 Service Unavailable"] }

(***************************************************************************)
(* with_retry and run_phase                                                *)
(***************************************************************************)

\* build_prompt accepting every phase identifier.
build_prompt_never_raises(ph) == FALSE

\* build_prompt raises ValueError for a phase PHASE_PROMPTS does not hold.
build_prompt_raises(ph) == ph \notin PHASE_PROMPTS

RECURSIVE Pow(_, _)
Pow(b, e) == IF e = 0 THEN 1 ELSE b * Pow(b, e - 1)

\* The delay with_retry sleeps after failed attempt n.
BackoffDelay(n) ==
    LET d == RETRY_CONFIG.base_delay * Pow(RETRY_CONFIG.exponential_base, n - 1)
    IN  IF d < RETRY_CONFIG.max_delay THEN d ELSE RETRY_CONFIG.max_delay

\* The timeout handed to asyncio.wait_for by run_phase.
Deadline(ph) == TIMEOUT_CONFIG_get(ph) + RETRY_BUFFER

\* on_retry numbering the attempts from zero.
RetryRecordZeroBased(n, e) == [attempt |-> n - 1, error |-> e.msg]

\* The record on_retry appends.  Wall-clock readings (this record's timestamp,
\* execution_time, the FallbackEvent's timestamp and recovery_time_ms) are left
\* out of the dicts of the model.
RetryRecord(n, e) == [attempt |-> n, error |-> e.msg]

\* The keys every dict returned by run_phase starts with (role, round and
\* session_id, copied from the arguments and the backend, are not modelled).
Base(ok, prov, ph) == [success |-> ok, provider |-> prov, phase |-> ph]

\* The timeout branch taken for the generic one (error text and class name of
\* asyncio.TimeoutError instead of the timeout message and kind).
TimeoutFailureAsGeneric(prov, ph, history) ==
    Base(FALSE, prov, ph) @@
        [error |-> "", error_type |-> "TimeoutError", retry_history |-> history]

\* run_phase: except asyncio.TimeoutError
TimeoutFailure(prov, ph, history) ==
    Base(FALSE, prov, ph) @@
        [error |-> "Timeout after " \o ToString(TIMEOUT_CONFIG_get(ph)) \o ".0s",
         error_type |-> "timeout",
         retry_history |-> history]

\* run_phase: except Exception as e
ExceptionFailure(prov, ph, e, history) ==
    Base(FALSE, prov, ph) @@
        [error |-> e.msg, error_type |-> e.type, retry_history |-> history]

\* The dict run_phase returns when an exception e leaves wait_for.
FailureFor(prov, ph, e, history) ==
    IF e.type = "TimeoutError" THEN TimeoutFailure(prov, ph, history)
    ELSE ExceptionFailure(prov, ph, e, history)

\* A parse failure turned into a Failure of the run.
WithPayloadFailing(response, parse_result) ==
    IF parse_result.parsed
    THEN response @@ [result |-> parse_result.data]
    ELSE SetKey(response, "success", FALSE) @@
         [error |-> "JSON parsing failed after all recovery attempts",
          error_type |-> "parse_error",
          retry_history |-> <<>>]

\* The keys run_phase sets from parse_result.
WithPayload(response, parse_result) ==
    IF parse_result.parsed
    THEN IF parse_result.strategy_used # "direct"
         THEN response @@ [result |-> parse_result.data,
                           parse_recovery |-> parse_result.strategy_used]
         ELSE response @@ [result |-> parse_result.data]
    ELSE response @@
         [result |-> [raw_response |-> parse_result.raw_response],
          warning |-> "JSON parsing failed after all recovery attempts",
          parse_details |->
              [error |-> parse_result.parse_error,
               strategies_tried |-> parse_result.strategies_tried]]

\* retry_history set whether or not an attempt was retried.
WithRetryHistoryAlways(response, history) == SetKey(response, "retry_history", history)

\* if retry_attempts: response["retry_history"] = retry_attempts
WithRetryHistory(response, history) ==
    IF history # <<>> THEN SetKey(response, "retry_history", history) ELSE response

\* run_phase: the try body after wait_for has returned the backend's result.
SuccessFor(prov, ph, reply, history) ==
    WithRetryHistory(
        WithPayload(Base(TRUE, prov, ph), robust_json_parse(strip(reply.text))),
        history)

\* The dict run_phase returns when llm.run returned reply: result.text.strip()
\* raises AttributeError when text is None.
ReturnFor(prov, ph, reply, history) ==
    IF "text" \in DOMAIN reply THEN SuccessFor(prov, ph, reply, history)
    ELSE ExceptionFailure(prov, ph,
             [type |-> "AttributeError",
              msg |-> "'NoneType' object has no attribute 'strip'"], history)

BackendCall(n) == [run |-> run, provider |-> run_provider, attempt |-> n]

\* run_phase from its entry to the first await of with_retry; build_prompt runs
\* before the try block, so its ValueError leaves run_phase and its caller.
RunPhaseBegin ==
    /\ pc \in {"start", "fallback_start"}
    /\ runs' = Append(runs, run_provider)
    /\ IF build_prompt_raises(phase)
       THEN /\ raised' = [type |-> "ValueError", msg |-> "Unknown phase: " \o phase]
            /\ pc' = "raised"
            /\ UNCHANGED <<attempt, retry_attempts, now, wake, calls>>
       ELSE /\ \E d \in Durations : wake' = d
            /\ attempt' = 1
            /\ retry_attempts' = <<>>
            /\ now' = 0
            /\ calls' = Append(calls, BackendCall(1))
            /\ pc' = "calling"
            /\ UNCHANGED raised
    /\ UNCHANGED <<provider, phase, fallback_config, run, run_provider, result,
                   event, fallback_history, run_results, clsVars, auxVars>>

\* run_phase returns dict r to run_phase_with_fallback; its locals are gone.
\* `how` notes what ended the run: "returned" / "raised" (the backend call) or
\* "deadline" (wait_for's timeout).
RunEnds(r, how) ==
    /\ result' = r
    /\ run_results' = Append(run_results, [run |-> run, ended_by |-> how, value |-> r])
    /\ attempt' = 0
    /\ retry_attempts' = <<>>
    /\ now' = 0
    /\ wake' = 0
    /\ pc' = "run_done"

\* await func() returns: with_retry and wait_for return, run_phase builds the dict.
BackendReturns ==
    /\ pc = "calling"
    /\ wake <= Deadline(phase)
    /\ \E reply \in BackendReplies :
           RunEnds(ReturnFor(run_provider, phase, reply, retry_attempts), "returned")
    /\ UNCHANGED <<provider, phase, fallback_config, run, run_provider, event,
                   fallback_history, raised, runs, calls, clsVars, auxVars>>

\* with_retry treating NonRetryableError like every other exception.
BackendRaisesRetryAll ==
    /\ pc = "calling"
    /\ wake <= Deadline(phase)
    /\ \E e \in BackendErrors :
           IF attempt = RETRY_CONFIG.max_attempts
           THEN RunEnds(FailureFor(run_provider, phase, e, retry_attempts), "raised")
           ELSE /\ retry_attempts' = Append(retry_attempts, RetryRecord(attempt, e))
                /\ now' = wake
                /\ wake' = wake + BackoffDelay(attempt)
                /\ pc' = "sleeping"
                /\ UNCHANGED <<attempt, result, run_results>>
    /\ UNCHANGED <<provider, phase, fallback_config, run, run_provider, event,
                   fallback_history, raised, runs, calls, clsVars, auxVars>>

\* await func() raises e: with_retry re-raises, or records the attempt and sleeps.
BackendRaises ==
    /\ pc = "calling"
    /\ wake <= Deadline(phase)
    /\ \E e \in BackendErrors :
           IF e.type = "NonRetryableError" \/ attempt = RETRY_CONFIG.max_attempts
           THEN RunEnds(FailureFor(run_provider, phase, e, retry_attempts), "raised")
           ELSE /\ retry_attempts' = Append(retry_attempts, RetryRecord(attempt, e))
                /\ now' = wake
                /\ wake' = wake + BackoffDelay(attempt)
                /\ pc' = "sleeping"
                /\ UNCHANGED <<attempt, result, run_results>>
    /\ UNCHANGED <<provider, phase, fallback_config, run, run_provider, event,
                   fallback_history, raised, runs, calls, clsVars, auxVars>>

\* asyncio.sleep(delay) returns: the loop starts the next attempt.
BackoffElapses ==
    /\ pc = "sleeping"
    /\ wake <= Deadline(phase)
    /\ now' = wake
    /\ attempt' = attempt + 1
    /\ \E d \in Durations : wake' = wake + d
    /\ calls' = Append(calls, BackendCall(attempt + 1))
    /\ pc' = "calling"
    /\ UNCHANGED <<provider, phase, fallback_config, run, run_provider,
                   retry_attempts, result, event, fallback_history, raised, runs,
                   run_results, clsVars, auxVars>>

\* run_phase awaiting with_retry without wait_for: nothing ends a call or a
\* sleep that lasts beyond the deadline.
DeadlineNeverExpires ==
    /\ pc \in {"calling", "sleeping"}
    /\ wake >= Deadline(phase)
    /\ UNCHANGED vars

\* wait_for's timeout fires while with_retry is suspended in a call or a sleep.
DeadlineExpires ==
    /\ pc \in {"calling", "sleeping"}
    /\ wake >= Deadline(phase)
    /\ RunEnds(TimeoutFailure(run_provider, phase, retry_attempts), "deadline")
    /\ UNCHANGED <<provider, phase, fallback_config, run, run_provider, event,
                   fallback_history, raised, runs, calls, clsVars, auxVars>>

(***************************************************************************)
(* run_phase_with_fallback                                                 *)
(***************************************************************************)

\* The fallback test without the comparison with the primary provider.
FallbackTargetAnyKnown(res, cfg, prov) ==
    IF ~res.success /\ cfg.enabled /\ should_fallback(res)
    THEN PROVIDER_MAP_get(cfg.fallback_provider)
    ELSE NONE

\* The two nested ifs after the primary run: the Provider to fall back to, or
\* NONE when the primary result is returned as it is.
FallbackTarget(res, cfg, prov) ==
    IF ~res.success /\ cfg.enabled /\ should_fallback(res)
    THEN LET fallback_provider == PROVIDER_MAP_get(cfg.fallback_provider)
         IN  IF fallback_provider # NONE /\ fallback_provider # prov
             THEN fallback_provider
             ELSE NONE
    ELSE NONE

\* FallbackEvent(...) taking its error_type from the key of the primary dict.
NewFallbackEventCopiedKind(ph, prov, cfg, res) ==
    [phase |-> ph,
     original_provider |-> prov,
     fallback_provider |-> cfg.fallback_provider,
     error_type |-> Get(res, "error_type", "unknown"),
     error_message |-> Get(res, "error", "")]

\* FallbackEvent(...) as built before the fallback run.
NewFallbackEvent(ph, prov, cfg, res) ==
    [phase |-> ph,
     original_provider |-> prov,
     fallback_provider |-> cfg.fallback_provider,
     error_type |-> classify_error(Get(res, "error", "")),
     error_message |-> Get(res, "error", "")]

\* if fallback_history: result["fallback_history"] = fallback_history
AttachFallbackHistory(res, history) ==
    IF history # <<>> THEN SetKey(res, "fallback_history", history) ELSE res

\* The fallback metadata without the fallback_used / original_provider marks.
WithFallbackHistoryOnly(res, prov, history) ==
    IF history # <<>> THEN SetKey(res, "fallback_history", history) ELSE res

\* The metadata added to the fallback run's dict, and the final
\* if fallback_history: result["fallback_history"] = fallback_history.
WithFallbackMetadata(res, prov, history) ==
    LET r1 == SetKey(SetKey(res, "fallback_used", TRUE), "original_provider", prov)
    IN  IF history # <<>> THEN SetKey(r1, "fallback_history", history) ELSE r1

\* The primary run has returned: start the fallback run or return its dict.
AfterPrimary ==
    /\ pc = "run_done"
    /\ run = "primary"
    /\ LET target == FallbackTarget(result, fallback_config, provider)
       IN  IF target # NONE
           THEN /\ event' = NewFallbackEvent(phase, provider, fallback_config, result)
                /\ run' = "fallback"
                /\ run_provider' = target
                /\ pc' = "fallback_start"
           ELSE /\ pc' = "returned"
                /\ UNCHANGED <<event, run, run_provider>>
    /\ UNCHANGED <<provider, phase, fallback_config, attempt, retry_attempts, now,
                   wake, result, fallback_history, raised, runs, calls,
                   run_results, clsVars, auxVars>>

\* After the fallback run the wrapper starts one more fallback run when that
\* run failed in a fallback-eligible way.
AfterFallbackChained ==
    /\ pc = "run_done"
    /\ run = "fallback"
    /\ fallback_history' = Append(fallback_history, event)
    /\ IF ~result.success /\ should_fallback(result)
       THEN /\ pc' = "fallback_start"
            /\ UNCHANGED result
       ELSE /\ pc' = "returned"
            /\ result' = WithFallbackMetadata(result, provider, fallback_history')
    /\ UNCHANGED <<provider, phase, fallback_config, run, run_provider, attempt,
                   retry_attempts, now, wake, event, raised, runs, calls,
                   run_results, clsVars, auxVars>>

\* The fallback run has returned: complete the event, mark and return its dict.
AfterFallback ==
    /\ pc = "run_done"
    /\ run = "fallback"
    /\ fallback_history' = Append(fallback_history, event)
    /\ result' = WithFallbackMetadata(result, provider, fallback_history')
    /\ pc' = "returned"
    /\ UNCHANGED <<provider, phase, fallback_config, run, run_provider, attempt,
                   retry_attempts, now, wake, event, raised, runs, calls,
                   run_results, clsVars, auxVars>>

(***************************************************************************)
(* Specification of one call                                               *)
(***************************************************************************)

NoException == [type |-> NONE, msg |-> NONE]

PrsOff ==
    /\ p_stage = "off"
    /\ p_text = ""
    /\ p_nparts = 0
    /\ p_result = EmptyDict

\* The calls interleaved on the event loop.
Invocations == {"a", "b"}

ConOff ==
    /\ k_pc = [i \in Invocations |-> "off"]
    /\ k_provider = [i \in Invocations |-> NONE]
    /\ k_run = [i \in Invocations |-> NONE]
    /\ k_attempt = [i \in Invocations |-> 0]
    /\ k_retry_attempts = [i \in Invocations |-> <<>>]
    /\ k_fallback_history = [i \in Invocations |-> <<>>]
    /\ k_event = [i \in Invocations |-> EmptyDict]
    /\ k_result = [i \in Invocations |-> EmptyDict]
    /\ k_made = [i \in Invocations |-> [retries |-> <<>>, events |-> <<>>]]

\* Names test_provider_availability is called with: the trusted provider,
\* the other PROVIDER_MAP keys and one name PROVIDER_MAP lacks.
ProbeNames == {"claude", "gpt", "codex", "gemini", "mistral"}

HltOff ==
    /\ h_mode = "off"
    /\ h_pc = "off"
    /\ h_args = EmptyDict
    /\ h_env = {}
    /\ h_requested = <<>>
    /\ h_tasks = <<>>
    /\ h_probe = [n \in ProbeNames |-> "idle"]
    /\ h_status = [n \in ProbeNames |-> EmptyDict]
    /\ h_health_results = EmptyDict
    /\ h_warning = EmptyDict
    /\ h_effective = NONE
    /\ h_stdout = <<>>
    /\ h_stderr = <<>>
    /\ h_exit = NONE
    /\ h_cred = <<>>
    /\ h_canary = <<>>
    /\ h_canary_result = [n \in ProbeNames |-> EmptyDict]
    /\ h_phase_calls = <<>>

HokOff ==
    /\ g_hook = "off"
    /\ g_pc = "off"
    /\ g_stdin = NONE
    /\ g_head = ""
    /\ g_args = <<>>
    /\ g_captured = ""
    /\ g_stdout = <<>>
    /\ g_stderr = <<>>
    /\ g_exit = NONE

RtyOff ==
    /\ r_pc = "off"
    /\ r_config = EmptyDict
    /\ r_timeout = 0
    /\ r_attempt = 0
    /\ r_now = 0
    /\ r_wake = 0
    /\ r_log = <<>>
    /\ r_outcome = EmptyDict
    /\ r_abandoned = EmptyDict

ExtOff == HokOff /\ RtyOff

AuxOff == PrsOff /\ ConOff /\ HltOff /\ ExtOff

ClsOff ==
    /\ c_stage = "off"
    /\ c_msg = ""
    /\ c_nfrag = 0
    /\ c_kind = NONE
    /\ c_outcome = EmptyDict
    /\ c_fb = FALSE

\* run_phase_with_fallback has been called: its arguments are bound and
\* fallback_history is the empty list.
Init ==
    /\ pc = "start"
    /\ provider \in Providers
    /\ phase \in Phases
    /\ fallback_config \in [enabled : BOOLEAN, fallback_provider : FallbackNames]
    /\ run = "primary"
    /\ run_provider = provider
    /\ attempt = 0
    /\ retry_attempts = <<>>
    /\ now = 0
    /\ wake = 0
    /\ result = EmptyDict
    /\ event = EmptyDict
    /\ fallback_history = <<>>
    /\ raised = NoException
    /\ runs = <<>>
    /\ calls = <<>>
    /\ run_results = <<>>
    /\ ClsOff
    /\ AuxOff

Next ==
    \/ RunPhaseBegin
    \/ BackendRaises
    \/ BackendReturns
    \/ BackoffElapses
    \/ DeadlineExpires
    \/ AfterPrimary
    \/ AfterFallback

Spec == Init /\ [][Next]_vars

\* The same call under the scheduling of the event loop: a coroutine that can
\* take a step takes it, every Model Backend call returns or raises unless
\* the deadline of wait_for comes first, every asyncio.sleep ends and the
\* timer of wait_for fires once its deadline is reached.
SpecLive == Init /\ [][Next]_vars /\ WF_vars(Next)

(***************************************************************************)
(* Specification of the classifier                                         *)
(***************************************************************************)

\* Most fragments an error message is assembled from.
MaxFrags == 2

\* Pieces of error messages: markers of every pattern group in several
\* spellings, pieces that form a marker only when joined, and plain text.
Fragments ==
    { "429", "Rate Limit", "Too Many Requests", "quota", "timed out", "503", "busy",
      "401", "Unauthorized", "invalid key", "Invalid", "blocked",
      "4", "01", " ", "error: " }

\* error_type values of the dicts handed to should_fallback (NONE: key absent).
ErrorTypeChoices == {"timeout", "RuntimeError", NONE}

InvOff ==
    /\ pc = "off"
    /\ provider = NONE
    /\ phase = NONE
    /\ fallback_config = EmptyDict
    /\ run = NONE
    /\ run_provider = NONE
    /\ attempt = 0
    /\ retry_attempts = <<>>
    /\ now = 0
    /\ wake = 0
    /\ result = EmptyDict
    /\ event = EmptyDict
    /\ fallback_history = <<>>
    /\ raised = NoException
    /\ runs = <<>>
    /\ calls = <<>>
    /\ run_results = <<>>

InitClassify ==
    /\ InvOff
    /\ AuxOff
    /\ c_stage = "building"
    /\ c_msg = ""
    /\ c_nfrag = 0
    /\ c_kind = NONE
    /\ c_outcome = EmptyDict
    /\ c_fb = FALSE

\* One more fragment is appended to the message.
AppendFragment ==
    /\ c_stage = "building"
    /\ c_nfrag < MaxFrags
    /\ \E f \in Fragments : c_msg' = c_msg \o f
    /\ c_nfrag' = c_nfrag + 1
    /\ UNCHANGED <<c_stage, c_kind, c_outcome, c_fb, invVars, auxVars>>

\* classify_error(c_msg) is called.
ClassifyError ==
    /\ c_stage = "building"
    /\ c_kind' = classify_error(c_msg)
    /\ c_stage' = "classified"
    /\ UNCHANGED <<c_msg, c_nfrag, c_outcome, c_fb, invVars, auxVars>>

\* The dicts should_fallback is called with: success flag, the message under
\* "error" (or no such key), an error_type (or none).
OutcomeDicts(msg) ==
    { (IF et = NONE THEN EmptyDict ELSE [error_type |-> et])
          @@ (IF has_error THEN [error |-> msg] ELSE EmptyDict)
          @@ [success |-> ok] :
        ok \in BOOLEAN, has_error \in BOOLEAN, et \in ErrorTypeChoices }

\* should_fallback is called on a dict carrying the message.
ShouldFallback ==
    /\ c_stage = "classified"
    /\ \E d \in OutcomeDicts(c_msg) :
           /\ c_outcome' = d
           /\ c_fb' = should_fallback(d)
    /\ c_stage' = "decided"
    /\ UNCHANGED <<c_msg, c_nfrag, c_kind, invVars, auxVars>>

NextClassify ==
    \/ AppendFragment
    \/ ClassifyError
    \/ ShouldFallback

SpecClassify == InitClassify /\ [][NextClassify]_vars

(***************************************************************************)
(* Specification of the response normaliser                                *)
(***************************************************************************)

\* Most parts a response text is assembled from.
MaxParts == 2

\* Pieces of response texts: JSON documents that are well formed, that have
\* a trailing comma, an unquoted key or both, fences, prose, fragments no
\* strategy repairs, and a document whose string value is a fence, bare and
\* fenced.
Parts ==
    { "{\"a\": 1}", "{\"a\": [1, 2,],}", "{a: 1}", "{a: {b: 2,}}", "[1, 2]",
      "^^^json\n", "^^^\n", "\n^^^", "^^^json\n{\"a\": 1}\n^^^",
      "{\"a\": \"^^^\"}", "^^^json\n{\"a\": \"^^^\"}\n^^^",
      "Here is the result: ", " thanks", "{\"a\": ", "}", "" }

InitParse ==
    /\ InvOff
    /\ ClsOff
    /\ ConOff
    /\ HltOff
    /\ ExtOff
    /\ p_stage = "building"
    /\ p_text = ""
    /\ p_nparts = 0
    /\ p_result = EmptyDict

\* One more part is appended to the text.
AppendPart ==
    /\ p_stage = "building"
    /\ p_nparts < MaxParts
    /\ \E part \in Parts : p_text' = p_text \o part
    /\ p_nparts' = p_nparts + 1
    /\ UNCHANGED <<p_stage, p_result, invVars, clsVars, conVars, hltVars,
                   extVars>>

\* robust_json_parse(p_text) is called.
RobustJsonParse ==
    /\ p_stage = "building"
    /\ p_result' = robust_json_parse(p_text)
    /\ p_stage' = "parsed"
    /\ UNCHANGED <<p_text, p_nparts, invVars, clsVars, conVars, hltVars,
                   extVars>>

NextParse ==
    \/ AppendPart
    \/ RobustJsonParse

SpecParse == InitParse /\ [][NextParse]_vars

(***************************************************************************)
(* Specification of interleaved calls                                      *)
(*                                                                         *)
(* Each call is a coroutine on one event loop; control passes between the  *)
(* calls only at an await (the backend call, the backoff sleep), and the   *)
(* deadline of a run may fire at any of them.                              *)
(***************************************************************************)

\* Arguments shared by the interleaved calls.
KPhase == "round_claim"

KFallbackConfig == [enabled |-> TRUE, fallback_provider |-> "claude"]

\* What the Model Backend does in the interleaved calls.
KErrors ==
    { [type |-> "RuntimeError", msg |-> "429 Too Many Requests"],
      [type |-> "NonRetryableError", msg |-> "Service Unavailable"] }

KReplies == { [success |-> TRUE, text |-> "{\"core_thesis\": \"X\"}"] }

\* One frame for all calls: retry_attempts and fallback_history as lists shared
\* between the calls.
LocalsShared(i) == "a"

\* retry_attempts = [] and fallback_history = [] are locals: each call binds
\* lists of its own frame.
LocalsOf(i) == i

\* provider argument of the run_phase call that call i is in.
KRunProvider(i) ==
    IF k_run[i] = "primary" THEN k_provider[i]
    ELSE PROVIDER_MAP_get(KFallbackConfig.fallback_provider)

InitInterleaved ==
    /\ InvOff
    /\ ClsOff
    /\ PrsOff
    /\ HltOff
    /\ ExtOff
    /\ k_pc = [i \in Invocations |-> "start"]
    /\ k_provider \in [Invocations -> Providers]
    /\ k_run = [i \in Invocations |-> "primary"]
    /\ k_attempt = [i \in Invocations |-> 0]
    /\ k_retry_attempts = [i \in Invocations |-> <<>>]
    /\ k_fallback_history = [i \in Invocations |-> <<>>]
    /\ k_event = [i \in Invocations |-> EmptyDict]
    /\ k_result = [i \in Invocations |-> EmptyDict]
    /\ k_made = [i \in Invocations |-> [retries |-> <<>>, events |-> <<>>]]

\* Call i enters run_phase_with_fallback (fallback_history = []) or its
\* fallback run, binds retry_attempts = [] and makes the first backend call.
KRunPhaseBegin(i) ==
    /\ k_pc[i] \in {"start", "fallback_start"}
    /\ k_retry_attempts' = [k_retry_attempts EXCEPT ![LocalsOf(i)] = <<>>]
    /\ k_fallback_history' =
           IF k_pc[i] = "start"
           THEN [k_fallback_history EXCEPT ![LocalsOf(i)] = <<>>]
           ELSE k_fallback_history
    /\ k_attempt' = [k_attempt EXCEPT ![i] = 1]
    /\ k_made' = [k_made EXCEPT ![i].retries = <<>>]
    /\ k_pc' = [k_pc EXCEPT ![i] = "calling"]
    /\ UNCHANGED <<k_provider, k_run, k_event, k_result, invVars, clsVars, prsVars, hltVars,
                   extVars>>

\* The run of call i ends with dict r.
KRunEnds(i, r) ==
    /\ k_result' = [k_result EXCEPT ![i] = r]
    /\ k_attempt' = [k_attempt EXCEPT ![i] = 0]
    /\ k_pc' = [k_pc EXCEPT ![i] = "run_done"]

\* The backend call of call i returns.
KBackendReturns(i) ==
    /\ k_pc[i] = "calling"
    /\ \E reply \in KReplies :
           KRunEnds(i, ReturnFor(KRunProvider(i), KPhase, reply,
                                 k_retry_attempts[LocalsOf(i)]))
    /\ UNCHANGED <<k_provider, k_run, k_retry_attempts, k_fallback_history,
                   k_event, k_made, invVars, clsVars, prsVars, hltVars,
                   extVars>>

\* The backend call of call i raises.
KBackendRaises(i) ==
    /\ k_pc[i] = "calling"
    /\ \E e \in KErrors :
           IF e.type = "NonRetryableError" \/ k_attempt[i] = RETRY_CONFIG.max_attempts
           THEN /\ KRunEnds(i, FailureFor(KRunProvider(i), KPhase, e,
                                          k_retry_attempts[LocalsOf(i)]))
                /\ UNCHANGED <<k_retry_attempts, k_made>>
           ELSE /\ k_retry_attempts' =
                       [k_retry_attempts EXCEPT
                            ![LocalsOf(i)] = Append(@, RetryRecord(k_attempt[i], e))]
                /\ k_made' =
                       [k_made EXCEPT
                            ![i].retries = Append(@, RetryRecord(k_attempt[i], e))]
                /\ k_pc' = [k_pc EXCEPT ![i] = "sleeping"]
                /\ UNCHANGED <<k_attempt, k_result>>
    /\ UNCHANGED <<k_provider, k_run, k_fallback_history, k_event, invVars,
                   clsVars, prsVars, hltVars,
                   extVars>>

\* The backoff sleep of call i is over.
KBackoffElapses(i) ==
    /\ k_pc[i] = "sleeping"
    /\ k_attempt' = [k_attempt EXCEPT ![i] = @ + 1]
    /\ k_pc' = [k_pc EXCEPT ![i] = "calling"]
    /\ UNCHANGED <<k_provider, k_run, k_retry_attempts, k_fallback_history,
                   k_event, k_result, k_made, invVars, clsVars, prsVars, hltVars,
                   extVars>>

\* wait_for's timeout fires for the run of call i.
KDeadlineExpires(i) ==
    /\ k_pc[i] \in {"calling", "sleeping"}
    /\ KRunEnds(i, TimeoutFailure(KRunProvider(i), KPhase,
                                  k_retry_attempts[LocalsOf(i)]))
    /\ UNCHANGED <<k_provider, k_run, k_retry_attempts, k_fallback_history,
                   k_event, k_made, invVars, clsVars, prsVars, hltVars,
                   extVars>>

\* The primary run of call i has returned.
KAfterPrimary(i) ==
    /\ k_pc[i] = "run_done"
    /\ k_run[i] = "primary"
    /\ LET target == FallbackTarget(k_result[i], KFallbackConfig, k_provider[i])
       IN  IF target # NONE
           THEN /\ k_event' =
                       [k_event EXCEPT
                            ![i] = NewFallbackEvent(KPhase, k_provider[i],
                                                    KFallbackConfig, k_result[i])]
                /\ k_run' = [k_run EXCEPT ![i] = "fallback"]
                /\ k_pc' = [k_pc EXCEPT ![i] = "fallback_start"]
                /\ UNCHANGED k_result
           ELSE /\ k_pc' = [k_pc EXCEPT ![i] = "returned"]
                /\ k_result' =
                       [k_result EXCEPT
                            ![i] = AttachFallbackHistory(
                                       @, k_fallback_history[LocalsOf(i)])]
                /\ UNCHANGED <<k_event, k_run>>
    /\ UNCHANGED <<k_provider, k_attempt, k_retry_attempts, k_fallback_history,
                   k_made, invVars, clsVars, prsVars, hltVars,
                   extVars>>

\* The fallback run of call i has returned.
KAfterFallback(i) ==
    /\ k_pc[i] = "run_done"
    /\ k_run[i] = "fallback"
    /\ k_fallback_history' =
           [k_fallback_history EXCEPT ![LocalsOf(i)] = Append(@, k_event[i])]
    /\ k_made' = [k_made EXCEPT ![i].events = Append(@, k_event[i])]
    /\ k_result' =
           [k_result EXCEPT
                ![i] = WithFallbackMetadata(@, k_provider[i],
                                            k_fallback_history'[LocalsOf(i)])]
    /\ k_pc' = [k_pc EXCEPT ![i] = "returned"]
    /\ UNCHANGED <<k_provider, k_run, k_attempt, k_retry_attempts, k_event,
                   invVars, clsVars, prsVars, hltVars,
                   extVars>>

NextInterleaved ==
    \E i \in Invocations :
        \/ KRunPhaseBegin(i)
        \/ KBackendReturns(i)
        \/ KBackendRaises(i)
        \/ KBackoffElapses(i)
        \/ KDeadlineExpires(i)
        \/ KAfterPrimary(i)
        \/ KAfterFallback(i)

SpecInterleaved == InitInterleaved /\ [][NextInterleaved]_vars

(***************************************************************************)
(* Specification of the health probes and the command line flow            *)
(***************************************************************************)

\* The env_vars table of validate_api_keys.
ENV_VARS ==
    [claude |-> <<"ANTHROPIC_API_KEY", "CLAUDE_API_KEY">>,
     gpt |-> <<"OPENAI_API_KEY", "CODEX_API_KEY">>,
     codex |-> <<"OPENAI_API_KEY", "CODEX_API_KEY">>,
     gemini |-> <<"GOOGLE_API_KEY", "GEMINI_API_KEY">>]

\* ', '.join(names)
RECURSIVE Join(_)
Join(names) ==
    IF names = <<>> THEN ""
    ELSE IF Len(names) = 1 THEN names[1]
    ELSE names[1] \o ", " \o Join(Tail(names))

\* validate_api_keys reporting a key for every provider.
validate_api_keys_always_valid(provider_name, env) ==
    [valid |-> TRUE, provider |-> provider_name, checked_vars |-> <<>>]

\* validate_api_keys(provider) under the environment env.
validate_api_keys(provider_name, env) ==
    LET required_vars ==
            IF provider_name \in DOMAIN ENV_VARS THEN ENV_VARS[provider_name]
            ELSE <<>>
        hits == {j \in DOMAIN required_vars : required_vars[j] \in env}
    IN  IF hits # {}
        THEN [valid |-> TRUE, provider |-> provider_name,
              checked_vars |-> SubSeq(required_vars, 1, Min(hits))]
        ELSE [valid |-> FALSE, provider |-> provider_name,
              checked_vars |-> required_vars,
              error |-> "No API key found for " \o provider_name
                            \o ". Set one of: " \o Join(required_vars)]

\* No provider exempt from the probe.
IsTrustedNever(provider_name) == FALSE

\* if provider_name == "claude": Claude is assumed always available.
IsTrusted(provider_name) == provider_name = "claude"

\* Environments: no key at all, a key of one provider, the second variable of
\* every pair.
Environments ==
    { {}, {"OPENAI_API_KEY"}, {"GEMINI_API_KEY"},
      {"CLAUDE_API_KEY", "CODEX_API_KEY", "GOOGLE_API_KEY"} }

\* Lists run_pre_debate_health_checks is called with.
RequestedLists ==
    { <<>>, <<"claude">>, <<"gpt">>, <<"codex">>,
      <<"claude", "gemini", "codex">>, <<"gemini", "gpt", "mistral">> }

\* Values of --provider: the argparse choices, or the option left out.
CliProviders == {"claude", "gpt", "codex", "gemini", NONE}

\* What the canary request does: llm.run returns a result object or raises.
CanaryReplies ==
    { [success |-> TRUE, text |-> "OK"],
      [success |-> FALSE, error |-> "429 Too Many Requests"],
      [success |-> FALSE] }

CanaryErrors ==
    { [type |-> "TimeoutError", msg |-> ""],
      [type |-> "RuntimeError", msg |-> "401 Unauthorized"],
      [type |-> "ConnectionError", msg |-> "connection reset by peer"] }

\* The phase main runs (argparse admits the PHASE_PROMPTS keys only).
MainPhase == "round_claim"

\* The dicts one run_phase call of main may return: a Success, a Failure after
\* three rate-limited attempts, one after three rejected attempts, a timeout.
RunOutcomes(prov) ==
    LET rate == [type |-> "RuntimeError", msg |-> "429 Too Many Requests"]
        auth == [type |-> "RuntimeError", msg |-> "401 Unauthorized"]
    IN  { SuccessFor(prov, MainPhase,
                     [success |-> TRUE, text |-> "{\"core_thesis\": \"X\"}"], <<>>),
          ExceptionFailure(prov, MainPhase, rate,
                           <<RetryRecord(1, rate), RetryRecord(2, rate)>>),
          ExceptionFailure(prov, MainPhase, auth,
                           <<RetryRecord(1, auth), RetryRecord(2, auth)>>),
          TimeoutFailure(prov, MainPhase, <<>>) }

Range(f) == {f[x] : x \in DOMAIN f}

HealthBlank ==
    /\ h_requested = <<>>
    /\ h_tasks = <<>>
    /\ h_probe = [n \in ProbeNames |-> "idle"]
    /\ h_status = [n \in ProbeNames |-> EmptyDict]
    /\ h_health_results = EmptyDict
    /\ h_warning = EmptyDict
    /\ h_effective = NONE
    /\ h_stdout = <<>>
    /\ h_stderr = <<>>
    /\ h_exit = NONE
    /\ h_cred = <<>>
    /\ h_canary = <<>>
    /\ h_canary_result = [n \in ProbeNames |-> EmptyDict]
    /\ h_phase_calls = <<>>

\* One of the three entry points has been called.
InitHealth ==
    /\ InvOff
    /\ ClsOff
    /\ PrsOff
    /\ ConOff
    /\ ExtOff
    /\ h_env \in Environments
    /\ h_mode \in {"probe", "checks", "main"}
    /\ HealthBlank
    /\ h_pc = h_mode
    /\ h_args \in
           CASE h_mode = "probe" -> [provider_name : ProbeNames]
             [] h_mode = "checks" -> [requested_providers : RequestedLists]
             [] h_mode = "main" ->
                    [provider : CliProviders,
                     others_given : BOOLEAN,
                     skip_health_check : BOOLEAN,
                     disable_fallback : BOOLEAN,
                     health_check_only : BOOLEAN]

\* test_provider_availability(name) is called directly.
ProbeCalled ==
    /\ h_pc = "probe"
    /\ h_tasks' = <<h_args.provider_name>>
    /\ h_pc' = "probing"
    /\ UNCHANGED <<h_mode, h_args, h_env, h_requested, h_probe, h_status,
                   h_health_results, h_warning, h_effective, h_stdout, h_stderr,
                   h_exit, h_cred, h_canary, h_canary_result, h_phase_calls, invVars, clsVars,
                   prsVars, conVars, extVars>>

\* test_provider_availability(n) from its entry to its first return or to the
\* await of the canary request.
TestProviderBegin(n) ==
    /\ h_pc \in {"probing", "gather"}
    /\ n \in Range(h_tasks)
    /\ h_probe[n] = "idle"
    /\ IF IsTrusted(n)
       THEN /\ h_status' = [h_status EXCEPT
                                ![n] = [provider |-> "claude", available |-> TRUE]]
            /\ h_probe' = [h_probe EXCEPT ![n] = "done"]
            /\ UNCHANGED <<h_cred, h_canary, h_canary_result>>
       ELSE IF PROVIDER_MAP_get(n) = NONE
       THEN /\ h_status' = [h_status EXCEPT
                                ![n] = [provider |-> n, available |-> FALSE,
                                        error |-> "Unknown provider: " \o n,
                                        error_type |-> "invalid_provider"]]
            /\ h_probe' = [h_probe EXCEPT ![n] = "done"]
            /\ UNCHANGED <<h_cred, h_canary, h_canary_result>>
       ELSE /\ h_cred' = Append(h_cred, n)
            /\ IF ~validate_api_keys(n, h_env).valid
               THEN /\ h_status' =
                           [h_status EXCEPT
                                ![n] = [provider |-> n, available |-> FALSE,
                                        error |-> validate_api_keys(n, h_env).error,
                                        error_type |-> "auth"]]
                    /\ h_probe' = [h_probe EXCEPT ![n] = "done"]
                    /\ UNCHANGED <<h_canary, h_canary_result>>
               ELSE /\ h_canary' = Append(h_canary, n)
                    /\ UNCHANGED h_canary_result
                    /\ h_probe' = [h_probe EXCEPT ![n] = "canary"]
                    /\ UNCHANGED h_status
    /\ UNCHANGED <<h_mode, h_pc, h_args, h_env, h_requested, h_tasks,
                   h_health_results, h_warning, h_effective, h_stdout, h_stderr,
                   h_exit, h_phase_calls, invVars, clsVars, prsVars, conVars, extVars>>

\* A canary result flagged unsuccessful taken for a successful one.
StatusForReplyAlwaysAvailable(n, reply) ==
    [provider |-> n, available |-> TRUE, latency_ms |-> "measured"]

\* The status for a canary result object; latency_ms holds the time measured
\* around the request.
StatusForReply(n, reply) ==
    IF reply.success
    THEN [provider |-> n, available |-> TRUE, latency_ms |-> "measured"]
    ELSE (IF "error" \in DOMAIN reply THEN [error |-> reply.error] ELSE EmptyDict)
             @@ [provider |-> n, available |-> FALSE,
                 error_type |-> classify_error(Get(reply, "error", "")),
                 latency_ms |-> "measured"]

\* The status for an exception of the canary request (timeout is the default
\* 15.0 of test_provider_availability).
StatusForError(n, e) ==
    IF e.type = "TimeoutError"
    THEN [provider |-> n, available |-> FALSE,
          error |-> "Health check timed out after 15.0s",
          error_type |-> "timeout"]
    ELSE [provider |-> n, available |-> FALSE, error |-> e.msg,
          error_type |-> classify_error(e.msg)]

\* The canary request of the probe of n returns.
TestProviderCanaryReturns(n) ==
    /\ h_probe[n] = "canary"
    /\ \E reply \in CanaryReplies :
           /\ h_status' = [h_status EXCEPT ![n] = StatusForReply(n, reply)]
           /\ h_canary_result' =
                  [h_canary_result EXCEPT ![n] = [did |-> "returned", value |-> reply]]
    /\ h_probe' = [h_probe EXCEPT ![n] = "done"]
    /\ UNCHANGED <<h_mode, h_pc, h_args, h_env, h_requested, h_tasks,
                   h_health_results, h_warning, h_effective, h_stdout, h_stderr,
                   h_exit, h_cred, h_canary, h_phase_calls, invVars, clsVars,
                   prsVars, conVars, extVars>>

\* The canary request of the probe of n raises.
TestProviderCanaryRaises(n) ==
    /\ h_probe[n] = "canary"
    /\ \E e \in CanaryErrors :
           /\ h_status' = [h_status EXCEPT ![n] = StatusForError(n, e)]
           /\ h_canary_result' =
                  [h_canary_result EXCEPT ![n] = [did |-> "raised", value |-> e]]
    /\ h_probe' = [h_probe EXCEPT ![n] = "done"]
    /\ UNCHANGED <<h_mode, h_pc, h_args, h_env, h_requested, h_tasks,
                   h_health_results, h_warning, h_effective, h_stdout, h_stderr,
                   h_exit, h_cred, h_canary, h_phase_calls, invVars, clsVars,
                   prsVars, conVars, extVars>>

\* [p for p in requested_providers if p in ["gemini", "codex"]]
ProvidersToCheck(requested_providers) ==
    SelectSeq(requested_providers, LAMBDA q : q \in {"gemini", "codex"})

\* run_pre_debate_health_checks up to asyncio.gather, or to its return when
\* there is nothing to check.
HealthChecksBegin ==
    /\ h_pc = "checks_start"
    /\ h_tasks' = ProvidersToCheck(h_requested)
    /\ h_pc' = IF ProvidersToCheck(h_requested) = <<>> THEN "checks_returned"
               ELSE "gather"
    /\ UNCHANGED <<h_mode, h_args, h_env, h_requested, h_probe, h_status,
                   h_health_results, h_warning, h_effective, h_stdout, h_stderr,
                   h_exit, h_cred, h_canary, h_canary_result, h_phase_calls, invVars, clsVars,
                   prsVars, conVars, extVars>>

\* asyncio.gather returns once every probe has returned; the statuses are
\* stored under status.provider.
HealthChecksGather ==
    /\ h_pc = "gather"
    /\ \A n \in Range(h_tasks) : h_probe[n] = "done"
    /\ h_health_results' =
           [q \in {h_status[n].provider : n \in Range(h_tasks)} |->
                h_status[CHOOSE n \in Range(h_tasks) : h_status[n].provider = q]]
    /\ h_pc' = "checks_returned"
    /\ UNCHANGED <<h_mode, h_args, h_env, h_requested, h_tasks, h_probe, h_status,
                   h_warning, h_effective, h_stdout, h_stderr, h_exit, h_cred,
                   h_canary, h_canary_result, h_phase_calls, invVars, clsVars,
                   prsVars, conVars, extVars>>

\* run_pre_debate_health_checks(requested_providers) is called directly.
ChecksCalled ==
    /\ h_pc = "checks"
    /\ h_requested' = h_args.requested_providers
    /\ h_pc' = "checks_start"
    /\ UNCHANGED <<h_mode, h_args, h_env, h_tasks, h_probe, h_status,
                   h_health_results, h_warning, h_effective, h_stdout, h_stderr,
                   h_exit, h_cred, h_canary, h_canary_result, h_phase_calls, invVars, clsVars,
                   prsVars, conVars, extVars>>

\* The process ends with status code after printing out to standard output
\* and err to standard error (sequences of objects).
MainExits(code, out, err) ==
    /\ h_exit' = code
    /\ h_stdout' = h_stdout \o out
    /\ h_stderr' = h_stderr \o err
    /\ h_pc' = "exit"

\* main from parse_args to the first health check, to the phase call or to
\* an early exit.
MainStart ==
    /\ h_pc = "main"
    /\ IF h_args.health_check_only
       THEN IF h_args.provider = NONE
            THEN /\ MainExits(2, <<>>,
                       <<"--provider is required for --health-check-only">>)
                 /\ UNCHANGED <<h_requested, h_cred, h_effective>>
            ELSE /\ h_requested' = <<h_args.provider>>
                 /\ h_pc' = "checks_start"
                 /\ UNCHANGED <<h_cred, h_effective, h_stdout, h_stderr, h_exit>>
       ELSE IF h_args.provider = NONE \/ ~h_args.others_given
       THEN /\ MainExits(2, <<>>,
                  <<"--provider, --role, --phase, --topic, and --viewpoint are required">>)
            /\ UNCHANGED <<h_requested, h_cred, h_effective>>
       ELSE /\ h_cred' = Append(h_cred, h_args.provider)
            /\ IF ~validate_api_keys(h_args.provider, h_env).valid
               THEN /\ MainExits(1,
                          <<[success |-> FALSE,
                             error |-> validate_api_keys(h_args.provider, h_env).error,
                             error_type |-> "api_key_missing"]>>, <<>>)
                    /\ UNCHANGED <<h_requested, h_effective>>
               ELSE /\ h_effective' = PROVIDER_MAP_get(h_args.provider)
                    /\ IF ~h_args.skip_health_check
                          /\ h_args.provider \in {"gemini", "codex"}
                       THEN /\ h_requested' = <<h_args.provider>>
                            /\ h_pc' = "checks_start"
                       ELSE /\ h_pc' = "exec"
                            /\ UNCHANGED h_requested
                    /\ UNCHANGED <<h_stdout, h_stderr, h_exit>>
    /\ UNCHANGED <<h_mode, h_args, h_env, h_tasks, h_probe, h_status,
                   h_health_results, h_warning, h_canary, h_canary_result, h_phase_calls, invVars,
                   clsVars, prsVars, conVars, extVars>>

\* main in --health-check-only mode after the health checks: the statuses are
\* printed, with an entry for claude added when claude was asked for.
MainHealthCheckOnly ==
    /\ h_mode = "main"
    /\ h_pc = "checks_returned"
    /\ h_args.health_check_only
    /\ MainExits(0,
           <<[health_check |->
                  IF h_args.provider = "claude"
                  THEN [q \in DOMAIN h_health_results \cup {"claude"} |->
                            IF q = "claude"
                            THEN [provider |-> "claude", available |-> TRUE]
                            ELSE h_health_results[q]]
                  ELSE h_health_results]>>, <<>>)
    /\ UNCHANGED <<h_mode, h_args, h_env, h_requested, h_tasks, h_probe, h_status,
                   h_health_results, h_warning, h_effective, h_cred, h_canary, h_canary_result,
                   h_phase_calls, invVars, clsVars, prsVars, conVars, extVars>>

\* main going on with the provider asked for whatever its status is.
MainAfterHealthCheckNoSwitch ==
    /\ h_mode = "main"
    /\ h_pc = "checks_returned"
    /\ ~h_args.health_check_only
    /\ h_pc' = "exec"
    /\ UNCHANGED <<h_mode, h_args, h_env, h_requested, h_tasks, h_probe, h_status,
                   h_health_results, h_cred, h_canary, h_canary_result, h_phase_calls, h_effective,
                   h_warning, h_stdout, h_stderr, h_exit, invVars, clsVars,
                   prsVars, conVars, extVars>>

\* main after the pre-debate health check: go on with the provider asked for,
\* switch to claude, or fail when fallback is disabled.
MainAfterHealthCheck ==
    /\ h_mode = "main"
    /\ h_pc = "checks_returned"
    /\ ~h_args.health_check_only
    /\ IF /\ h_args.provider \in DOMAIN h_health_results
          /\ ~h_health_results[h_args.provider].available
       THEN LET status == h_health_results[h_args.provider]
            IN  IF ~h_args.disable_fallback
                THEN /\ h_effective' = PROVIDER_MAP["claude"]
                     /\ h_warning' =
                            [message |-> h_args.provider \o " unavailable, using claude",
                             original_provider |-> h_args.provider,
                             error_type |-> status.error_type]
                                @@ (IF "error" \in DOMAIN status
                                    THEN [error |-> status.error] ELSE EmptyDict)
                     /\ h_stderr' = Append(h_stderr, [warning |-> h_warning'])
                     /\ h_pc' = "exec"
                     /\ UNCHANGED <<h_stdout, h_exit>>
                ELSE /\ MainExits(1,
                           <<[success |-> FALSE,
                              error |-> "Provider " \o h_args.provider \o " unavailable: "
                                            \o Get(status, "error", "None"),
                              error_type |-> status.error_type,
                              provider_status |-> status]>>, <<>>)
                     /\ UNCHANGED <<h_effective, h_warning>>
       ELSE /\ h_pc' = "exec"
            /\ UNCHANGED <<h_effective, h_warning, h_stdout, h_stderr, h_exit>>
    /\ UNCHANGED <<h_mode, h_args, h_env, h_requested, h_tasks, h_probe, h_status,
                   h_health_results, h_cred, h_canary, h_canary_result, h_phase_calls, invVars,
                   clsVars, prsVars, conVars, extVars>>

\* if pre_debate_warning: result["pre_debate_fallback"] = pre_debate_warning
WithPreDebateWarning(res, warning) ==
    IF warning # EmptyDict THEN SetKey(res, "pre_debate_fallback", warning) ELSE res

\* main ending with status 1 when the dict it prints is a Failure.
MainRunsPhaseExitByOutcome ==
    /\ h_pc = "exec"
    /\ \E r1 \in RunOutcomes(h_effective) :
           /\ h_phase_calls' = Append(h_phase_calls, h_effective)
           /\ MainExits(IF r1.success THEN 0 ELSE 1,
                        <<WithPreDebateWarning(r1, h_warning)>>, <<>>)
    /\ UNCHANGED <<h_mode, h_args, h_env, h_requested, h_tasks, h_probe, h_status,
                   h_health_results, h_warning, h_effective, h_cred, h_canary, h_canary_result,
                   invVars, clsVars, prsVars, conVars, extVars>>

\* main runs run_phase_with_fallback with the effective provider and prints
\* the dict it returns; the call is taken as one step, each run_phase call
\* returning one of RunOutcomes.
MainRunsPhase ==
    /\ h_pc = "exec"
    /\ LET cfg == [enabled |-> ~h_args.disable_fallback, fallback_provider |-> "claude"]
       IN  \E r1 \in RunOutcomes(h_effective) :
               IF FallbackTarget(r1, cfg, h_effective) = NONE
               THEN /\ h_phase_calls' = Append(h_phase_calls, h_effective)
                    /\ MainExits(0, <<WithPreDebateWarning(r1, h_warning)>>, <<>>)
               ELSE \E r2 \in RunOutcomes(FallbackTarget(r1, cfg, h_effective)) :
                        /\ h_phase_calls' =
                               h_phase_calls \o
                                   <<h_effective, FallbackTarget(r1, cfg, h_effective)>>
                        /\ MainExits(0,
                               <<WithPreDebateWarning(
                                     WithFallbackMetadata(
                                         r2, h_effective,
                                         <<NewFallbackEvent(MainPhase, h_effective,
                                                            cfg, r1)>>),
                                     h_warning)>>, <<>>)
    /\ UNCHANGED <<h_mode, h_args, h_env, h_requested, h_tasks, h_probe, h_status,
                   h_health_results, h_warning, h_effective, h_cred, h_canary, h_canary_result,
                   invVars, clsVars, prsVars, conVars, extVars>>

NextHealth ==
    \/ ProbeCalled
    \/ ChecksCalled
    \/ HealthChecksBegin
    \/ \E n \in ProbeNames : TestProviderBegin(n)
    \/ \E n \in ProbeNames : TestProviderCanaryReturns(n)
    \/ \E n \in ProbeNames : TestProviderCanaryRaises(n)
    \/ HealthChecksGather
    \/ MainStart
    \/ MainHealthCheckOnly
    \/ MainAfterHealthCheck
    \/ MainRunsPhase

SpecHealth == InitHealth /\ [][NextHealth]_vars

(***************************************************************************)
(* The command hooks: hooks/validate_debate_args.py (run before a Bash     *)
(* command) and hooks/validate_debate_output.py (run after it).  Each      *)
(* reads one JSON document from standard input and prints a decision.     *)
(***************************************************************************)

VALID_PHASES ==
    <<"initial_research", "round_claim", "round_claim_attack", "prep_defense",
      "round_defense">>

VALID_PROVIDERS == <<"claude", "gpt", "codex", "gemini">>

\* EXPECTED_FIELDS, in the order the dict is iterated.
EXPECTED_FIELDS == <<
    [phase |-> "initial_research", fields |-> <<"findings", "sources", "key_points">>],
    [phase |-> "round_claim", fields |-> <<"claim", "evidence", "confidence">>],
    [phase |-> "round_claim_attack",
     fields |-> <<"claim", "evidence", "attacks", "confidence">>],
    [phase |-> "prep_defense",
     fields |-> <<"defense_points", "counter_arguments", "additional_research">>],
    [phase |-> "round_defense",
     fields |-> <<"defense", "counterattacks", "final_position">>] >>

\* Largest number of arguments appended to a command.
MaxArgs == 3

\* Commands start as a call of the script or as another command.
CommandHeads == {"python3 scripts/multi_llm_debater.py", "ls -la"}

\* Arguments a command is built from.
Arguments ==
    {[flag |-> "--provider", sep |-> " ", value |-> v] : v \in {"claude", "claudex", "mistral"}}
        \cup {[flag |-> "--provider", sep |-> "=", value |-> "gpt"]}
        \cup {[flag |-> "--phase", sep |-> " ", value |-> v] :
                  v \in {"round_claim", "closing_statement"}}
        \cup {[flag |-> "--topic", sep |-> " ", value |-> v] :
                  v \in {"x", "'gemini in round_defense'"}}
        \cup {[flag |-> "--role", sep |-> " ", value |-> "A"],
              [flag |-> "--validate-deps", sep |-> "", value |-> ""]}

\* The text of the command with head `head` and arguments `args`.
RECURSIVE CommandText(_, _)
CommandText(head, args) ==
    IF args = <<>> THEN head
    ELSE CommandText(head \o " " \o args[1].flag \o args[1].sep \o args[1].value,
                     Tail(args))

\* What a hook leaves behind: the objects printed to standard output, the
\* lines printed to standard error and the exit status.
HookResult(out, err, code) == [stdout |-> out, stderr |-> err, exit |-> code]

\* "\n".join(f"  - {e}" for e in errors)
RECURSIVE Bullets(_)
Bullets(errors) ==
    IF errors = <<>> THEN ""
    ELSE IF Len(errors) = 1 THEN "  - " \o errors[1]
    ELSE "  - " \o errors[1] \o "\n" \o Bullets(Tail(errors))

\* '; '.join(warnings)
RECURSIVE JoinWith(_, _)
JoinWith(sep, items) ==
    IF items = <<>> THEN ""
    ELSE IF Len(items) = 1 THEN items[1]
    ELSE items[1] \o sep \o JoinWith(sep, Tail(items))

\* The error validate_input records for --provider, if any.
ProviderErrors(command) ==
    IF ~Contains(command, "--provider")
    THEN <<"Missing required argument: --provider">>
    ELSE IF \E i \in DOMAIN VALID_PROVIDERS :
                \/ Contains(command, "--provider " \o VALID_PROVIDERS[i])
                \/ Contains(command, "--provider=" \o VALID_PROVIDERS[i])
         THEN <<>>
    ELSE IF \E i \in DOMAIN VALID_PROVIDERS : Contains(command, VALID_PROVIDERS[i])
         THEN <<>>
    ELSE <<"Invalid provider. Must be one of: " \o Join(VALID_PROVIDERS)>>

\* The error validate_input records for --phase, if any.
PhaseErrors(command) ==
    IF ~Contains(command, "--phase")
    THEN <<"Missing required argument: --phase">>
    ELSE IF \E i \in DOMAIN VALID_PHASES : Contains(command, VALID_PHASES[i])
         THEN <<>>
    ELSE <<"Invalid phase. Must be one of: " \o Join(VALID_PHASES)>>

\* The error validate_input records for --topic, if any.
TopicErrors(command) ==
    IF ~Contains(command, "--topic")
    THEN <<"Missing required argument: --topic">>
    ELSE <<>>

\* The warning validate_input records for --role, if any.
RoleWarnings(command) ==
    IF ~Contains(command, "--role")
    THEN <<"Consider specifying --role (A, B, or C) for context isolation">>
    ELSE <<>>

\* The end of validate_input, once errors and warnings are collected.
InputDecision(errors, warnings) ==
    IF errors # <<>>
    THEN HookResult(<<[decision |-> "block",
                       reason |-> "Debate script validation failed:\n"
                                      \o Bullets(errors)]>>, <<>>, 0)
    ELSE HookResult(<<[decision |-> "allow", reason |-> NONE]>>,
                    IF warnings # <<>>
                    THEN <<"Warnings: " \o JoinWith("; ", warnings)>> ELSE <<>>,
                    0)

\* validate_input of validate_debate_args.py, standard input holding either
\* text that is no JSON or {"tool_input": {"command": command}}.
validate_input(stdin, command) ==
    IF stdin = "not_json" THEN HookResult(<<>>, <<>>, 0)
    ELSE IF ~Contains(command, "multi_llm_debater.py") THEN HookResult(<<>>, <<>>, 0)
    ELSE IF Contains(command, "--validate-deps") \/ Contains(command, "--validate-api-key")
         THEN HookResult(<<>>, <<>>, 0)
    ELSE InputDecision(ProviderErrors(command) \o PhaseErrors(command)
                           \o TopicErrors(command),
                       RoleWarnings(command))

\* str.rfind(p)
rfind(s, p) ==
    LET hits == {i \in 0..(Len(s) - Len(p)) : Slice(s, i, i + Len(p)) = p}
    IN  IF hits = {} THEN -1 ELSE CHOOSE i \in hits : \A j \in hits : j <= i

\* Group 1 of re.search(opener + r'\s*([\s\S]*?)\s*' + fence, text), where a
\* is the index of the leftmost opener, b the index after the opener and
\* the whitespace that follows it, and c the index of the first fence from
\* b on; NONE when there is no match.
FencedGroup(text, a, b, c) ==
    IF a < 0 \/ c < 0 THEN NONE
    ELSE Slice(text, b,
               Min({e \in b..c : \A k \in e..(c - 1) : CharAt(text, k) \in Whitespace}))

SearchFenced(text, opener, a) ==
    FencedGroup(text, a,
                SkipWhile(text, a + Len(opener), Whitespace),
                IF a < 0 THEN -1
                ELSE find(text, FENCE, SkipWhile(text, a + Len(opener), Whitespace)))

\* Group 1 of re.search(r'(\{[\s\S]*\})', text): from the first opening
\* brace to the last closing brace.
SearchBraces(text, a, z) ==
    IF a < 0 \/ z < a THEN NONE ELSE Slice(text, a, z + 1)

\* Group 1 of the n-th of json_patterns searched in text, or NONE.
SearchPattern(n, text) ==
    IF n = 1 THEN SearchFenced(text, FENCE_JSON, find(text, FENCE_JSON, 0))
    ELSE IF n = 2 THEN SearchFenced(text, FENCE, find(text, FENCE, 0))
    ELSE SearchBraces(text, find(text, "{", 0), rfind(text, "}"))

\* The value None.
JsonNull == [t |-> "lit", v |-> "null"]

\* json_result after the loop over json_patterns from the n-th pattern on.
RECURSIVE FromPatterns(_, _)
FromPatternGroup(n, text, group) ==
    IF group # NONE /\ json_loads(group).ok THEN json_loads(group).val
    ELSE FromPatterns(n + 1, text)

FromPatterns(n, text) ==
    IF n > 3 THEN JsonNull ELSE FromPatternGroup(n, text, SearchPattern(n, text))

\* json_result of validate_output: the direct parse, else the patterns.
JsonResultOf(stdout, direct) ==
    IF direct.ok THEN direct.val ELSE FromPatterns(1, stdout)

\* dict.get(key) on a parsed object: the value of the last member named key.
RECURSIVE MemberOf(_, _, _)
MemberOf(members, key, default) ==
    IF members = <<>> THEN default
    ELSE IF members[Len(members)][1] = key THEN members[Len(members)][2]
    ELSE MemberOf(SubSeq(members, 1, Len(members) - 1), key, default)

\* Truth value of a parsed value.
Truthy(val) ==
    IF val.t = "str" THEN val.v # ""
    ELSE IF val.t = "num"
         THEN \E k \in 0..(Len(val.v) - 1) : CharAt(val.v, k) \in Digits \ {"0"}
    ELSE IF val.t = "lit" THEN val.v = "true"
    ELSE val.v # <<>>

\* confidence < 0.3 for a number or a boolean.
BelowThreshold(val) ==
    IF val.t = "lit" THEN val.v = "false"
    ELSE \/ CharAt(val.v, 0) = "-" /\ Truthy(val)
         \/ /\ CharAt(val.v, 0) = "0"
            /\ \/ Len(val.v) = 1
               \/ CharAt(val.v, 2) \in {"0", "1", "2"}
         \/ CharAt(val.v, 0) = "-" /\ ~Truthy(val)

\* The first entry of EXPECTED_FIELDS whose phase occurs in the command.
FirstPhaseIn(command) ==
    LET hits == {i \in DOMAIN EXPECTED_FIELDS : Contains(command, EXPECTED_FIELDS[i].phase)}
    IN  IF hits = {} THEN 0 ELSE Min(hits)

\* Warning about the fields entry k expects and the object lacks.
FieldWarnings(k, members) ==
    IF k = 0 THEN <<>>
    ELSE LET missing == SelectSeq(EXPECTED_FIELDS[k].fields,
                                  LAMBDA f : \A j \in DOMAIN members : members[j][1] # f)
         IN  IF missing = <<>> THEN <<>>
             ELSE <<"Missing expected fields for " \o EXPECTED_FIELDS[k].phase
                        \o ": " \o Join(missing)>>

\* Warning about an error reported by the object.
ErrorWarnings(members) ==
    IF \/ Truthy(MemberOf(members, "error", JsonNull))
       \/ MemberOf(members, "status", JsonNull) = [t |-> "str", v |-> "error"]
    THEN <<"Debate execution reported an error">>
    ELSE <<>>

\* Warning about a low confidence.
ConfidenceWarnings(confidence) ==
    IF confidence.t = "num" \/ (confidence.t = "lit" /\ confidence.v # "null")
    THEN IF BelowThreshold(confidence)
         THEN <<"Low confidence score - results may be unreliable">> ELSE <<>>
    ELSE <<>>

\* The end of validate_output: the warnings go to standard error and the
\* decision to standard output.
OutputDecision(warnings) ==
    HookResult(<<[decision |-> "allow", reason |-> NONE]>>,
               IF warnings # <<>>
               THEN <<"Debate output warnings:\n" \o Bullets(warnings)>> ELSE <<>>,
               0)

\* An exception nothing catches: a traceback on standard error, status 1.
HookCrash(exception) == HookResult(<<>>, <<"Traceback: " \o exception>>, 1)

\* validate_output from the point where json_result is set.
CheckJsonResult(command, json_result) ==
    IF json_result = JsonNull
    THEN OutputDecision(<<"Output does not contain valid JSON - may need manual review">>)
    ELSE IF FirstPhaseIn(command) # 0 /\ json_result.t \in {"num", "lit"}
         THEN HookCrash("TypeError")
    ELSE IF json_result.t # "obj" THEN HookCrash("AttributeError")
    ELSE OutputDecision(FieldWarnings(FirstPhaseIn(command), json_result.v)
                            \o ErrorWarnings(json_result.v)
                            \o ConfidenceWarnings(
                                   MemberOf(json_result.v, "confidence", JsonNull)))

\* validate_output of validate_debate_output.py, standard input holding
\* either text that is no JSON or {"tool_input": {"command": command},
\* "tool_output": {"stdout": stdout}}.
validate_output(stdin, command, stdout) ==
    IF stdin = "not_json" THEN HookResult(<<>>, <<>>, 0)
    ELSE IF ~Contains(command, "multi_llm_debater.py") THEN HookResult(<<>>, <<>>, 0)
    ELSE IF Contains(command, "--validate-deps") \/ Contains(command, "--validate-api-key")
         THEN HookResult(<<>>, <<>>, 0)
    ELSE CheckJsonResult(command, JsonResultOf(stdout, json_loads(strip(stdout))))

\* What standard input may hold.
StdinKinds == {"json", "not_json"}

\* Standard outputs captured from the command: objects, JSON of other
\* shapes, text without JSON, text around JSON.
CapturedStdouts ==
    {"{\"claim\": \"c\", \"evidence\": [\"e\"], \"confidence\": 0.85}",
     "{\"claim\": \"c\", \"evidence\": [], \"confidence\": 0.1}",
     "{\"success\": false, \"error\": \"Timeout after 90.0s\"}",
     "[1, 2]",
     "5",
     "null",
     "",
     "not json",
     "^^^json\n{\"claim\": \"c\"}\n^^^",
     "^^^\n[1]\n^^^",
     "log {\"status\": \"error\"} done"}

InitHooks ==
    /\ g_hook \in {"args", "output"}
    /\ g_pc = "input"
    /\ g_stdin = NONE
    /\ g_head \in CommandHeads
    /\ g_args = <<>>
    /\ g_captured = ""
    /\ g_stdout = <<>>
    /\ g_stderr = <<>>
    /\ g_exit = NONE
    /\ InvOff
    /\ ClsOff
    /\ PrsOff
    /\ ConOff
    /\ HltOff
    /\ RtyOff

\* One more argument is written after the command.
AppendArgument ==
    /\ g_pc = "input"
    /\ Len(g_args) < MaxArgs
    /\ \E a \in Arguments :
           /\ \A j \in DOMAIN g_args : g_args[j].flag # a.flag
           /\ g_args' = Append(g_args, a)
    /\ UNCHANGED <<g_hook, g_pc, g_stdin, g_head, g_captured, g_stdout, g_stderr,
                   g_exit, rtyVars, invVars, clsVars, prsVars, conVars, hltVars>>

\* The hook process ends.
HookEnds(r) ==
    /\ g_stdout' = r.stdout
    /\ g_stderr' = r.stderr
    /\ g_exit' = r.exit
    /\ g_pc' = "done"

\* validate_debate_args.py runs on the command.
ValidateInput ==
    /\ g_hook = "args"
    /\ g_pc = "input"
    /\ \E kind \in StdinKinds :
           /\ g_stdin' = kind
           /\ HookEnds(validate_input(kind, CommandText(g_head, g_args)))
    /\ UNCHANGED <<g_hook, g_head, g_args, g_captured, rtyVars, invVars, clsVars,
                   prsVars, conVars, hltVars>>

\* validate_debate_output.py runs on the command and its captured output.
ValidateOutput ==
    /\ g_hook = "output"
    /\ g_pc = "input"
    /\ \E kind \in StdinKinds, out \in CapturedStdouts :
           /\ g_stdin' = kind
           /\ g_captured' = out
           /\ HookEnds(validate_output(kind, CommandText(g_head, g_args), out))
    /\ UNCHANGED <<g_hook, g_head, g_args, rtyVars, invVars, clsVars, prsVars,
                   conVars, hltVars>>

NextHooks ==
    \/ AppendArgument
    \/ ValidateInput
    \/ ValidateOutput

SpecHooks == InitHooks /\ [][NextHooks]_vars

(***************************************************************************)
(* One call of asyncio.wait_for(with_retry(func, config, on_retry),        *)
(* timeout), as run_phase makes it, for several RetryConfig values.  Time  *)
(* is counted in seconds from the call.  A cancelled task ends at once.    *)
(***************************************************************************)

\* RetryConfig values: the defaults, the defaults with more attempts, and
\* other delays.
RetryConfigs ==
    {RETRY_CONFIG,
     [max_attempts |-> 8, base_delay |-> 1, max_delay |-> 30, exponential_base |-> 2],
     [max_attempts |-> 4, base_delay |-> 2, max_delay |-> 10, exponential_base |-> 3]}

\* Timeouts run_phase passes to asyncio.wait_for.
RetryTimeouts == {Deadline(ph) : ph \in {"initial_research", "round_claim"}}

\* Seconds a call of func takes before it returns or raises.
CallDurations == {2, 40, 400}

\* What func raises.
FuncErrors == {"Exception", "NonRetryableError"}

\* delay of with_retry without the cap of max_delay.
retry_delay_uncapped(config, n) == config.base_delay * Pow(config.exponential_base, n - 1)

\* delay of with_retry after the failure of attempt n.
retry_delay(config, n) ==
    Min({config.base_delay * Pow(config.exponential_base, n - 1), config.max_delay})

\* An entry of the log.
LogEntry(what, n, t, d) == [ev |-> what, attempt |-> n, at |-> t, delay |-> d]

InitRetry ==
    /\ r_pc = "start"
    /\ r_config \in RetryConfigs
    /\ r_timeout \in RetryTimeouts
    /\ r_attempt = 0
    /\ r_now = 0
    /\ r_wake = 0
    /\ r_log = <<>>
    /\ r_outcome = EmptyDict
    /\ r_abandoned = EmptyDict
    /\ InvOff
    /\ ClsOff
    /\ PrsOff
    /\ ConOff
    /\ HltOff
    /\ HokOff

\* with_retry enters its loop and awaits the first call of func.
WithRetryBegin ==
    /\ r_pc = "start"
    /\ r_attempt' = 1
    /\ r_log' = Append(r_log, LogEntry("call", 1, r_now, 0))
    /\ \E d \in CallDurations : r_wake' = r_now + d
    /\ r_pc' = "calling"
    /\ UNCHANGED <<r_config, r_timeout, r_now, r_outcome, r_abandoned, hokVars,
                   invVars, clsVars, prsVars, conVars, hltVars>>

\* The call of wait_for ends.
RetryEnds(kind, t, log) ==
    /\ r_outcome' = [kind |-> kind, attempt |-> r_attempt, at |-> t]
    /\ r_now' = t
    /\ r_log' = log
    /\ r_pc' = "done"

\* with_retry going on with its loop after a call of func that returned,
\* and returning the value of the last attempt.
FuncReturnsKeepsLooping ==
    /\ r_pc = "calling"
    /\ r_wake <= r_timeout
    /\ IF r_attempt < r_config.max_attempts
       THEN /\ r_log' = r_log \o <<LogEntry("return", r_attempt, r_wake, 0),
                                   LogEntry("call", r_attempt + 1, r_wake, 0)>>
            /\ r_attempt' = r_attempt + 1
            /\ r_now' = r_wake
            /\ \E d \in CallDurations : r_wake' = r_wake + d
            /\ UNCHANGED <<r_pc, r_outcome>>
       ELSE /\ RetryEnds("returned", r_wake,
                         Append(r_log, LogEntry("return", r_attempt, r_wake, 0)))
            /\ UNCHANGED <<r_attempt, r_wake>>
    /\ UNCHANGED <<r_config, r_timeout, r_abandoned, hokVars,
                   invVars, clsVars, prsVars, conVars, hltVars>>

\* func returns before the timeout: with_retry returns its value.
FuncReturns ==
    /\ r_pc = "calling"
    /\ r_wake <= r_timeout
    /\ RetryEnds("returned", r_wake, Append(r_log, LogEntry("return", r_attempt, r_wake, 0)))
    /\ UNCHANGED <<r_config, r_timeout, r_attempt, r_wake, r_abandoned, hokVars,
                   invVars, clsVars, prsVars, conVars, hltVars>>

\* with_retry calling on_retry after the failure of the last attempt too.
FuncRaisesCallbackOnLast ==
    /\ r_pc = "calling"
    /\ r_wake <= r_timeout
    /\ \E e \in FuncErrors :
           IF e = "NonRetryableError"
           THEN /\ RetryEnds("raised:" \o e, r_wake,
                             Append(r_log, LogEntry("fail", r_attempt, r_wake, 0)))
                /\ UNCHANGED <<r_attempt, r_wake>>
           ELSE IF r_attempt = r_config.max_attempts
           THEN /\ RetryEnds("raised:" \o e, r_wake,
                             r_log \o <<LogEntry("fail", r_attempt, r_wake, 0),
                                        LogEntry("on_retry", r_attempt, r_wake, 0)>>)
                /\ UNCHANGED <<r_attempt, r_wake>>
           ELSE /\ r_log' = r_log \o
                        <<LogEntry("fail", r_attempt, r_wake, 0),
                          LogEntry("on_retry", r_attempt, r_wake, 0),
                          LogEntry("sleep", r_attempt, r_wake,
                                   retry_delay(r_config, r_attempt))>>
                /\ r_now' = r_wake
                /\ r_wake' = r_wake + retry_delay(r_config, r_attempt)
                /\ r_pc' = "sleeping"
                /\ UNCHANGED <<r_attempt, r_outcome>>
    /\ UNCHANGED <<r_config, r_timeout, r_abandoned, hokVars, invVars, clsVars,
                   prsVars, conVars, hltVars>>

\* func raises before the timeout: with_retry re-raises a NonRetryableError
\* and the exception of the last attempt; after any other failure it
\* computes the delay, calls on_retry and sleeps.
FuncRaises ==
    /\ r_pc = "calling"
    /\ r_wake <= r_timeout
    /\ \E e \in FuncErrors :
           IF e = "NonRetryableError" \/ r_attempt = r_config.max_attempts
           THEN /\ RetryEnds("raised:" \o e, r_wake,
                             Append(r_log, LogEntry("fail", r_attempt, r_wake, 0)))
                /\ UNCHANGED <<r_attempt, r_wake>>
           ELSE /\ r_log' = r_log \o
                        <<LogEntry("fail", r_attempt, r_wake, 0),
                          LogEntry("on_retry", r_attempt, r_wake, 0),
                          LogEntry("sleep", r_attempt, r_wake,
                                   retry_delay(r_config, r_attempt))>>
                /\ r_now' = r_wake
                /\ r_wake' = r_wake + retry_delay(r_config, r_attempt)
                /\ r_pc' = "sleeping"
                /\ UNCHANGED <<r_attempt, r_outcome>>
    /\ UNCHANGED <<r_config, r_timeout, r_abandoned, hokVars, invVars, clsVars,
                   prsVars, conVars, hltVars>>

\* The next attempt beginning without the sleep being awaited.
SleepElapsesAtOnce ==
    /\ r_pc = "sleeping"
    /\ r_attempt' = r_attempt + 1
    /\ r_log' = Append(r_log, LogEntry("call", r_attempt + 1, r_now, 0))
    /\ \E d \in CallDurations : r_wake' = r_now + d
    /\ r_pc' = "calling"
    /\ UNCHANGED <<r_config, r_timeout, r_now, r_outcome, r_abandoned, hokVars,
                   invVars, clsVars, prsVars, conVars, hltVars>>

\* asyncio.sleep(delay) returns before the timeout: the next iteration of
\* the loop calls func.
SleepElapses ==
    /\ r_pc = "sleeping"
    /\ r_wake <= r_timeout
    /\ r_now' = r_wake
    /\ r_attempt' = r_attempt + 1
    /\ r_log' = Append(r_log, LogEntry("call", r_attempt + 1, r_wake, 0))
    /\ \E d \in CallDurations : r_wake' = r_wake + d
    /\ r_pc' = "calling"
    /\ UNCHANGED <<r_config, r_timeout, r_outcome, r_abandoned, hokVars, invVars,
                   clsVars, prsVars, conVars, hltVars>>

\* The timeout of wait_for expires while with_retry awaits func or the
\* sleep: the task is cancelled and asyncio.TimeoutError is raised to
\* run_phase.  A call of func in flight is left behind.
TimeoutExpires ==
    /\ r_pc \in {"calling", "sleeping"}
    /\ r_wake >= r_timeout
    /\ RetryEnds("timeout", r_timeout, r_log)
    /\ r_abandoned' = IF r_pc = "calling"
                      THEN [attempt |-> r_attempt, due |-> r_wake, resolved |-> FALSE]
                      ELSE EmptyDict
    /\ UNCHANGED <<r_config, r_timeout, r_attempt, r_wake, hokVars, invVars,
                   clsVars, prsVars, conVars, hltVars>>

\* The result of the call left behind being taken as the outcome.
AbandonedCallResolvesUsed ==
    /\ r_pc = "done"
    /\ r_abandoned # EmptyDict
    /\ ~r_abandoned.resolved
    /\ r_abandoned' = [r_abandoned EXCEPT !.resolved = TRUE]
    /\ r_now' = r_abandoned.due
    /\ r_outcome' = [kind |-> "returned", attempt |-> r_abandoned.attempt,
                     at |-> r_abandoned.due]
    /\ UNCHANGED <<r_pc, r_config, r_timeout, r_attempt, r_wake, r_log, hokVars,
                   invVars, clsVars, prsVars, conVars, hltVars>>

\* The backend finishes the call left behind: nothing awaits it any more.
AbandonedCallResolves ==
    /\ r_pc = "done"
    /\ r_abandoned # EmptyDict
    /\ ~r_abandoned.resolved
    /\ r_abandoned' = [r_abandoned EXCEPT !.resolved = TRUE]
    /\ r_now' = r_abandoned.due
    /\ UNCHANGED <<r_pc, r_config, r_timeout, r_attempt, r_wake, r_log, r_outcome,
                   hokVars, invVars, clsVars, prsVars, conVars, hltVars>>

NextRetry ==
    \/ WithRetryBegin
    \/ FuncReturns
    \/ FuncRaises
    \/ SleepElapses
    \/ TimeoutExpires
    \/ AbandonedCallResolves

SpecRetry == InitRetry /\ [][NextRetry]_vars

(***************************************************************************)
(* Properties of one call of run_phase_with_fallback                       *)
(***************************************************************************)

\* The primary run has returned its dict to run_phase_with_fallback.
PrimaryOutcome == run_results[1].value

\* The fallback run was entered.
FallbackExecuted == Len(runs) = 2

\* A Model Backend call was made against a provider other than the primary.
FallbackBackendCalled == \E i \in DOMAIN calls : calls[i].provider # provider

FatalKinds == {"auth", "invalid_input", "content_policy"}

EligibleKinds ==
    {"rate_limit", "quota", "timeout", "service_unavailable", "overloaded"}

\* C1 (as stated): run_phase_with_fallback never propagates an exception to
\* its caller; for every phase identifier, a known one or not, and every
\* behaviour of the backend, the call ends by returning a dict tagged success
\* or failure.
C1_NeverPropagates ==
    /\ raised = NoException
    /\ pc # "raised"
    /\ pc = "returned" => "success" \in DOMAIN result /\ result.success \in BOOLEAN

\* C2: in one call run_phase is entered at most twice, first against the
\* primary provider and then at most once against another provider, and
\* fallback_history never holds more than one event, whatever the outcome of
\* the fallback run is.
C2_AtMostOneFallbackRun ==
    /\ Len(runs) <= 2
    /\ Len(runs) >= 1 => runs[1] = provider
    /\ Len(runs) = 2 => runs[2] # provider
    /\ Len(fallback_history) <= 1
    /\ (pc = "returned" /\ "fallback_history" \in DOMAIN result)
           => Len(result.fallback_history) = 1

\* The call has returned after a fallback run that itself failed in a
\* fallback-eligible way.
C2_FallbackItselfFailedEligibly ==
    /\ pc = "returned"
    /\ FallbackExecuted
    /\ ~result.success
    /\ should_fallback(result)
    /\ Len(fallback_history) = 1

\* C3: whenever the fallback run was executed, the dict returned is the
\* fallback run's dict (its Success or its Failure, key for key) with
\* fallback_used set, original_provider naming the primary provider and a
\* fallback_history of exactly one event.
C3_FallbackOutcomeReturned ==
    (pc = "returned" /\ FallbackExecuted) =>
        LET fb == run_results[2].value
        IN  /\ run_results[2].run = "fallback"
            /\ fb.provider = runs[2]
            /\ \A k \in DOMAIN fb : k \in DOMAIN result /\ result[k] = fb[k]
            /\ DOMAIN result =
                   DOMAIN fb \cup {"fallback_used", "original_provider",
                                   "fallback_history"}
            /\ result.fallback_used = TRUE
            /\ result.original_provider = provider
            /\ Len(result.fallback_history) = 1
            /\ result.fallback_history[1].original_provider = provider

\* The call has returned the Failure of the fallback run.
C3_FallbackFailureReturned ==
    /\ pc = "returned"
    /\ FallbackExecuted
    /\ ~result.success
    /\ result.fallback_used = TRUE
    /\ result.provider # provider

\* The four conditions under which the fallback run is executed.
C4_Conditions ==
    /\ ~PrimaryOutcome.success
    /\ fallback_config.enabled
    /\ should_fallback(PrimaryOutcome)
    /\ PROVIDER_MAP_get(fallback_config.fallback_provider) # NONE
    /\ PROVIDER_MAP_get(fallback_config.fallback_provider) # provider

\* C4: the fallback run is executed if and only if the primary outcome is a
\* Failure, fallback is enabled, should_fallback(primary outcome) is true and
\* the configured name maps to a known provider other than the primary one;
\* in every other case no call reaches another backend and the primary
\* outcome is what the call returns.
C4_FallbackIff ==
    /\ Len(run_results) = 0 => ~FallbackExecuted /\ ~FallbackBackendCalled
    /\ Len(run_results) >= 1 =>
           /\ FallbackExecuted => C4_Conditions
           /\ FallbackBackendCalled => FallbackExecuted
           /\ pc = "returned" =>
                  /\ FallbackExecuted <=> C4_Conditions
                  /\ ~C4_Conditions => result = PrimaryOutcome

\* The primary provider failed in a fallback-eligible way with fallback
\* enabled, and the configured alias names the primary provider itself: the
\* primary Failure has been returned.
C4_AliasOfPrimaryNotCalled ==
    /\ pc = "returned"
    /\ provider = "codex"
    /\ fallback_config.enabled
    /\ fallback_config.fallback_provider = "gpt"
    /\ ~result.success
    /\ should_fallback(result)
    /\ ~FallbackExecuted

\* C5: when the primary run ends in a Failure whose error is of a fatal kind
\* (auth, invalid_input, content_policy) or of kind unknown, no fallback run
\* is entered, no other backend is called and the primary Failure is returned.
C5_FatalOrUnknownNoFallback ==
    (/\ Len(run_results) >= 1
     /\ ~PrimaryOutcome.success
     /\ classify_error(PrimaryOutcome.error) \in FatalKinds \cup {"unknown"})
        => /\ ~FallbackExecuted
           /\ ~FallbackBackendCalled
           /\ pc \notin {"fallback_start", "calling", "sleeping"}
           /\ pc = "returned" => result = PrimaryOutcome

\* An auth Failure of the primary provider has been returned although
\* fallback was enabled towards another known provider.
C5_AuthFailureReturned ==
    /\ pc = "returned"
    /\ fallback_config.enabled
    /\ PROVIDER_MAP_get(fallback_config.fallback_provider) \notin {NONE, provider}
    /\ ~result.success
    /\ classify_error(result.error) = "auth"
    /\ result = PrimaryOutcome
    /\ ~FallbackExecuted

\* C6 (as stated): a Model Backend call that fails with an error of a fatal
\* kind gets no further attempt: no retry record is written for it and no
\* backoff follows it.
C6_FatalErrorNotRetried ==
    /\ \A i \in DOMAIN retry_attempts :
           classify_error(retry_attempts[i].error) \notin FatalKinds
    /\ \A i \in DOMAIN run_results :
           "retry_history" \in DOMAIN run_results[i].value =>
               \A j \in DOMAIN run_results[i].value.retry_history :
                   classify_error(run_results[i].value.retry_history[j].error)
                       \notin FatalKinds

\* C10: when the pending await of the retry-wrapped call would resume only
\* after the phase timeout plus 10 seconds, the run ends there: run_phase
\* returns a Failure with error_type timeout that carries the retry records
\* accumulated so far, and no exception leaves it.
C10_OverrunIsTimeoutFailure ==
    [][ (pc \in {"calling", "sleeping"} /\ wake > TIMEOUT_CONFIG_get(phase) + 10)
            => /\ pc' = "run_done"
               /\ result'.success = FALSE
               /\ result'.error_type = "timeout"
               /\ result'.retry_history = retry_attempts
               /\ result'.provider = run_provider
               /\ raised' = NoException
               /\ calls' = calls ]_vars

\* A run has been ended by the deadline during a retry: its Failure carries
\* the record of the failed attempt.
C10_DeadlineAfterRetry ==
    /\ pc = "run_done"
    /\ run_results[Len(run_results)].ended_by = "deadline"
    /\ result.error_type = "timeout"
    /\ Len(result.retry_history) >= 1

\* Model Backend calls made in the run named r.
CallsOfRun(r) == Cardinality({j \in DOMAIN calls : calls[j].run = r})

\* The retry records of a dict ([] when it has none).
RetryHistoryOf(d) == Get(d, "retry_history", <<>>)

\* C11 (as stated): when every attempt of a run has failed (max_attempts calls
\* were made and the last one raised before the deadline), the dict of the
\* run holds max_attempts retry records.
C11_RecordsEqualMaxAttempts ==
    \A i \in DOMAIN run_results :
        (/\ run_results[i].ended_by = "raised"
         /\ CallsOfRun(run_results[i].run) = RETRY_CONFIG.max_attempts)
            => Len(RetryHistoryOf(run_results[i].value)) = RETRY_CONFIG.max_attempts

\* str(e) of the NonRetryableError instances; no other exception of the
\* Model Backend carries such a message.
NonRetryableMessages ==
    {e.msg : e \in {x \in BackendErrors : x.type = "NonRetryableError"}}

\* C12: a NonRetryableError at attempt n leaves with_retry at once: on_retry
\* writes no record for it, no backoff and no further call follow, whatever
\* number of attempts remains; the run ends with that exception and the
\* records of the n - 1 earlier attempts.
C12_NonRetryableShortCircuits ==
    /\ \A i \in DOMAIN retry_attempts :
           retry_attempts[i].error \notin NonRetryableMessages
    /\ \A i \in DOMAIN run_results :
           LET v == run_results[i].value
           IN  /\ \A j \in DOMAIN RetryHistoryOf(v) :
                      RetryHistoryOf(v)[j].error \notin NonRetryableMessages
               /\ Get(v, "error_type", NONE) = "NonRetryableError" =>
                      /\ run_results[i].ended_by = "raised"
                      /\ v.error \in NonRetryableMessages
                      /\ CallsOfRun(run_results[i].run) = Len(v.retry_history) + 1
    /\ pc = "sleeping" =>
           retry_attempts[Len(retry_attempts)].error \notin NonRetryableMessages

\* A run was ended by a NonRetryableError at its second attempt, one attempt
\* remaining.
C12_NonRetryableAtSecondAttempt ==
    /\ pc = "run_done"
    /\ Get(result, "error_type", NONE) = "NonRetryableError"
    /\ Len(result.retry_history) = 1
    /\ CallsOfRun(run) = 2

\* C13: for a phase identifier PHASE_PROMPTS does not hold, the call makes no
\* Model Backend call, no retry and no fallback run; it ends with the
\* ValueError of build_prompt before anything is sent.
C13_UnknownPhaseNoRemoteCall ==
    phase \notin PHASE_PROMPTS =>
        /\ calls = <<>>
        /\ retry_attempts = <<>>
        /\ run_results = <<>>
        /\ fallback_history = <<>>
        /\ Len(runs) <= 1
        /\ pc \in {"start", "raised", "off"}
        /\ pc = "raised" =>
               raised = [type |-> "ValueError", msg |-> "Unknown phase: " \o phase]

\* The call with an unknown phase and fallback enabled has ended.
C13_UnknownPhaseEnded ==
    /\ pc = "raised"
    /\ phase \notin PHASE_PROMPTS
    /\ fallback_config.enabled
    /\ calls = <<>>

\* The dict holds the raw-text wrapper as its payload.
HasRawPayload(v) ==
    /\ "result" \in DOMAIN v
    /\ DOMAIN v.result = {"raw_response"}

\* The dict holds a parsed object as its payload.
HasParsedPayload(v) ==
    /\ "result" \in DOMAIN v
    /\ DOMAIN v.result = {"t", "v"}

\* C14: when the Model Backend call of a run has returned a text, the run's
\* dict is a Success with exactly one payload, the parsed object or the
\* raw-text wrapper naming the four strategies; the call that returned the
\* text is the last one of the run, and a primary run that returned an
\* unparseable text is followed by no fallback run.
C14_ParseFailureNeverEscalates ==
    \A i \in DOMAIN run_results :
        LET v == run_results[i].value
        IN  (/\ run_results[i].ended_by = "returned"
             /\ Get(v, "error_type", NONE) # "AttributeError") =>
                /\ v.success = TRUE
                /\ "error" \notin DOMAIN v
                /\ HasRawPayload(v) # HasParsedPayload(v)
                /\ HasRawPayload(v) <=> "warning" \in DOMAIN v
                /\ HasRawPayload(v) =>
                       v.parse_details.strategies_tried = StrategyNames
                /\ CallsOfRun(run_results[i].run) = Len(RetryHistoryOf(v)) + 1
                /\ (i = 1 /\ HasRawPayload(v)) =>
                       /\ ~FallbackExecuted
                       /\ ~FallbackBackendCalled
                       /\ pc \in {"run_done", "returned"}
                       /\ pc = "returned" => result = v

\* The primary run returned an unparseable text after one retry, fallback
\* towards another provider being enabled, and its Success was returned.
C14_UnparseableReturned ==
    /\ pc = "returned"
    /\ fallback_config.enabled
    /\ PROVIDER_MAP_get(fallback_config.fallback_provider) \notin {NONE, provider}
    /\ result.success
    /\ HasRawPayload(result)
    /\ result.result.raw_response = "I cannot answer that."
    /\ Len(RetryHistoryOf(result)) = 1
    /\ ~FallbackExecuted

\* s is an initial segment of t.
IsPrefix(s, t) == Len(s) <= Len(t) /\ SubSeq(t, 1, Len(s)) = s

\* C17 (as stated): when a fallback run followed the primary run, the dict
\* returned still carries the retry records of the primary run.
C17_PrimaryRecordsKept ==
    (pc = "returned" /\ FallbackExecuted) =>
        IsPrefix(RetryHistoryOf(PrimaryOutcome), RetryHistoryOf(result))

NineKinds == EligibleKinds \cup FatalKinds \cup {"unknown"}

\* C18 (as stated): every Failure dict of a run carries an error_type that is
\* one of the nine kinds, the one classify_error gives for its error.
C18_FailureKindIsClassified ==
    \A i \in DOMAIN run_results :
        LET v == run_results[i].value
        IN  ~v.success =>
                /\ v.error_type \in NineKinds
                /\ v.error_type = classify_error(v.error)

(***************************************************************************)
(* Properties of classify_error and should_fallback                        *)
(***************************************************************************)

\* The lower-cased message holds one of the markers.
HasMarker(msg, markers) == \E m \in markers : Contains(lower(msg), m)

AuthMarkers == {"401", "unauthorized", "invalid key"}

RateLimitMarkers == {"rate limit", "429", "too many requests", "rate-limit"}

\* The message holds a pattern of some fallback-eligible group.
HasEligibleMarker(msg) ==
    \E i \in DOMAIN FALLBACK_ERROR_PATTERNS :
        AnyPatternIn(FALLBACK_ERROR_PATTERNS[i].patterns, lower(msg))

\* should_fallback was called on a Failure that carries the message.
DecidedOnFailureWithMessage ==
    /\ c_stage = "decided"
    /\ ~c_outcome.success
    /\ "error" \in DOMAIN c_outcome

\* C7 (as stated): for every message with an auth marker classify_error
\* returns auth and should_fallback on a Failure carrying it is false, also
\* when the message holds a fallback-eligible substring as well.
C7_AuthMarkerAlwaysAuth ==
    (c_stage \in {"classified", "decided"} /\ HasMarker(c_msg, AuthMarkers)) =>
        /\ c_kind = "auth"
        /\ DecidedOnFailureWithMessage => ~c_fb

\* C7 (amended): for every message with an auth marker and no
\* fallback-eligible substring classify_error returns auth, and should_fallback
\* on a Failure carrying it whose error_type is not timeout is false.
C7_AuthMarkerAloneIsAuth ==
    (/\ c_stage \in {"classified", "decided"}
     /\ HasMarker(c_msg, AuthMarkers)
     /\ ~HasEligibleMarker(c_msg)) =>
        /\ c_kind = "auth"
        /\ (DecidedOnFailureWithMessage /\ Get(c_outcome, "error_type", "") # "timeout")
               => ~c_fb

\* should_fallback has answered no for a Failure whose message holds the
\* auth marker "invalid key" and nothing fallback-eligible.
C7_InvalidKeyDecided ==
    /\ DecidedOnFailureWithMessage
    /\ Contains(lower(c_msg), "invalid key")
    /\ ~HasEligibleMarker(c_msg)
    /\ Get(c_outcome, "error_type", "") # "timeout"
    /\ c_kind = "auth"
    /\ ~c_fb

\* The pattern groups in the order classify_error walks them.
GroupsInOrder == FALLBACK_ERROR_PATTERNS \o HARD_FAILURE_PATTERNS

\* C8: classify_error walks the groups in the order rate_limit, quota,
\* timeout, service_unavailable, overloaded, auth, invalid_input,
\* content_policy on the lower-cased message and returns the first group with
\* a matching substring, unknown when there is none; a message with markers of
\* an eligible and of a fatal group gets the eligible kind, and a message with
\* a rate-limit marker is rate_limit, should_fallback being true for a Failure
\* that carries it.
C8_FirstGroupInOrderWins ==
    /\ [i \in DOMAIN GroupsInOrder |-> GroupsInOrder[i].error_type] =
           <<"rate_limit", "quota", "timeout", "service_unavailable",
             "overloaded", "auth", "invalid_input", "content_policy">>
    /\ c_stage \in {"classified", "decided"} =>
           LET hits == {i \in DOMAIN GroupsInOrder :
                            \E j \in DOMAIN GroupsInOrder[i].patterns :
                                Contains(lower(c_msg), GroupsInOrder[i].patterns[j])}
           IN  /\ hits = {} => c_kind = "unknown"
               /\ hits # {} => c_kind = GroupsInOrder[Min(hits)].error_type
               /\ (HasEligibleMarker(c_msg) /\ c_kind # NONE) => c_kind \in EligibleKinds
               /\ HasMarker(c_msg, RateLimitMarkers) =>
                      /\ c_kind = "rate_limit"
                      /\ DecidedOnFailureWithMessage => c_fb

\* A message with a rate-limit marker and an auth marker was classified
\* rate_limit and should_fallback answered yes for a Failure carrying it.
C8_MixedMessageIsRateLimit ==
    /\ DecidedOnFailureWithMessage
    /\ HasMarker(c_msg, RateLimitMarkers)
    /\ HasMarker(c_msg, AuthMarkers)
    /\ c_kind = "rate_limit"
    /\ c_fb

\* C9: should_fallback(outcome) is true exactly when the outcome is a Failure
\* and its error_type is timeout or classify_error of its message is one of
\* the five fallback-eligible kinds; so it is false for every Success and for
\* every Failure classified auth, invalid_input, content_policy or unknown
\* whose error_type is not timeout.
C9_ShouldFallbackExactly ==
    c_stage = "decided" =>
        /\ c_fb <=>
               /\ ~c_outcome.success
               /\ \/ Get(c_outcome, "error_type", "") = "timeout"
                  \/ classify_error(Get(c_outcome, "error", "")) \in EligibleKinds
        /\ c_outcome.success => ~c_fb
        /\ (/\ ~c_outcome.success
            /\ classify_error(Get(c_outcome, "error", ""))
                   \in FatalKinds \cup {"unknown"}
            /\ Get(c_outcome, "error_type", "") # "timeout") => ~c_fb

\* should_fallback answered yes for a Failure with error_type timeout whose
\* message classifies as auth.
C9_TimeoutTypeWithAuthMessage ==
    /\ c_stage = "decided"
    /\ ~c_outcome.success
    /\ Get(c_outcome, "error_type", "") = "timeout"
    /\ classify_error(Get(c_outcome, "error", "")) = "auth"
    /\ c_fb

(***************************************************************************)
(* Properties of robust_json_parse                                         *)
(***************************************************************************)

\* The text strategy number k hands to json.loads.
C15_Transformed(k) ==
    CASE k = 1 -> p_text
      [] k = 2 -> extract_json_block(p_text)
      [] k = 3 -> fix_trailing_commas(extract_json_block(p_text))
      [] k = 4 -> fix_unquoted_keys(fix_trailing_commas(extract_json_block(p_text)))

\* The strategies whose transformed text json.loads accepts.
C15_Accepting == {k \in 1..4 : json_loads(C15_Transformed(k)).ok}

C15_Names == <<"direct", "extract_block", "fix_commas", "fix_keys">>

\* C15: robust_json_parse tries direct, extract_block, fix_commas, fix_keys in
\* that order, stops at the first whose transformed text parses and reports
\* its name with the parsed value; when none parses it returns the wrapper
\* with the text unchanged, the error of the last strategy and the four names
\* in order.
C15_FirstParsingStrategyWins ==
    p_stage = "parsed" =>
        IF C15_Accepting # {}
        THEN p_result =
                 [parsed |-> TRUE,
                  data |-> json_loads(C15_Transformed(Min(C15_Accepting))).val,
                  strategy_used |-> C15_Names[Min(C15_Accepting)]]
        ELSE p_result =
                 [parsed |-> FALSE,
                  raw_response |-> p_text,
                  parse_error |-> DecodeErrorText(json_loads(C15_Transformed(4))),
                  strategies_tried |-> C15_Names]

\* A fenced text with an unquoted key was parsed by the last strategy only.
C15_ParsedByFixKeys ==
    /\ p_stage = "parsed"
    /\ p_result.parsed
    /\ p_result.strategy_used = "fix_keys"
    /\ Contains(p_text, FENCE)

(***************************************************************************)
(* Properties of interleaved calls                                         *)
(***************************************************************************)

\* C16: when calls are interleaved at their awaits, the retry_history of the
\* dict of each run and the fallback_history of the dict each call returns
\* hold the records that call itself produced, all of them and no others.
C16_HistoriesAreOwn ==
    \A i \in Invocations :
        /\ k_pc[i] \in {"run_done", "returned"} =>
               RetryHistoryOf(k_result[i]) = k_made[i].retries
        /\ k_pc[i] = "returned" =>
               Get(k_result[i], "fallback_history", <<>>) = k_made[i].events

\* Call a has returned from a fallback run with one retry record while call
\* b is in a backoff sleep with two records of its own.
C16_ReturnedWhileOtherSleeps ==
    /\ k_pc["a"] = "returned"
    /\ Len(RetryHistoryOf(k_result["a"])) = 1
    /\ Len(Get(k_result["a"], "fallback_history", <<>>)) = 1
    /\ k_pc["b"] = "sleeping"
    /\ Len(k_made["b"].retries) = 2

(***************************************************************************)
(* Properties of the health probes                                         *)
(***************************************************************************)

\* C19: claude is never probed: test_provider_availability("claude") returns
\* an available status without a call of validate_api_keys and without a
\* canary request, and neither run_pre_debate_health_checks nor main ever
\* calls the probe or sends a canary request for it.
C19_TrustedNeverProbed ==
    /\ "claude" \notin Range(h_canary)
    /\ h_probe["claude"] # "canary"
    /\ h_mode \in {"probe", "checks"} => "claude" \notin Range(h_cred)
    /\ h_mode \in {"checks", "main"} => "claude" \notin Range(h_tasks)
    /\ h_probe["claude"] = "done" =>
           h_status["claude"] = [provider |-> "claude", available |-> TRUE]
    /\ "claude" \in DOMAIN h_health_results =>
           h_health_results["claude"].available

\* test_provider_availability("claude") has returned available in an
\* environment that holds no key at all.
C19_ClaudeAvailableWithoutKey ==
    /\ h_mode = "probe"
    /\ h_args.provider_name = "claude"
    /\ h_env = {}
    /\ h_probe["claude"] = "done"
    /\ h_status["claude"].available
    /\ h_cred = <<>>
    /\ h_canary = <<>>

\* The known providers other than claude.
C20_Secondary == {"gpt", "codex", "gemini"}

\* No variable of the provider's pair holds a value.
C20_NoCredentials(n) == Range(ENV_VARS[n]) \cap h_env = {}

\* C20: the probe of a provider other than claude whose credential variables
\* are all unset returns at once an unavailable status of kind auth; no
\* canary request is sent for it.
C20_MissingCredentialsIsAuth ==
    \A n \in C20_Secondary :
        (/\ n \in Range(h_tasks)
         /\ h_probe[n] # "idle"
         /\ C20_NoCredentials(n)) =>
            /\ h_probe[n] = "done"
            /\ h_status[n].provider = n
            /\ ~h_status[n].available
            /\ h_status[n].error_type = "auth"
            /\ n \notin Range(h_canary)

\* The probe of gemini has returned the auth status in an environment that
\* holds a key of another provider only.
C20_GeminiWithoutKey ==
    /\ h_mode = "probe"
    /\ h_args.provider_name = "gemini"
    /\ h_env = {"OPENAI_API_KEY"}
    /\ h_probe["gemini"] = "done"
    /\ h_status["gemini"].error_type = "auth"
    /\ h_canary = <<>>

(***************************************************************************)
(* Properties of the command line flow                                     *)
(***************************************************************************)

\* main runs the debate path (not --health-check-only).
MainPath == h_mode = "main" /\ ~h_args.health_check_only

\* The pre-debate health check has returned an unavailable status for the
\* provider asked for, and main has acted on it.
PrimaryFoundUnavailable ==
    /\ MainPath
    /\ h_pc \in {"exec", "exit"}
    /\ h_args.provider \in DOMAIN h_health_results
    /\ ~h_health_results[h_args.provider].available

\* C21: when the pre-debate health check marks the provider asked for
\* unavailable, then with fallback enabled no phase call goes to that provider,
\* every phase call goes to claude and the dict printed carries
\* pre_debate_fallback; with fallback disabled no phase call is made, a
\* Failure is printed and the exit status is not zero.
C21_UnavailablePrimaryIsRoutedAround ==
    PrimaryFoundUnavailable =>
        IF ~h_args.disable_fallback
        THEN /\ h_effective = "claude"
             /\ \A j \in DOMAIN h_phase_calls : h_phase_calls[j] = "claude"
             /\ h_pc = "exit" =>
                    /\ h_phase_calls # <<>>
                    /\ Len(h_stdout) = 1
                    /\ "pre_debate_fallback" \in DOMAIN h_stdout[1]
                    /\ h_stdout[1].pre_debate_fallback.original_provider
                           = h_args.provider
                    /\ h_stdout[1].provider = "claude"
        ELSE /\ h_pc = "exit"
             /\ h_phase_calls = <<>>
             /\ h_exit = 1
             /\ Len(h_stdout) = 1
             /\ h_stdout[1].success = FALSE

\* gemini was found unavailable with fallback enabled and the phase has been
\* run by claude.
C21_SwitchedToClaude ==
    /\ PrimaryFoundUnavailable
    /\ h_args.provider = "gemini"
    /\ ~h_args.disable_fallback
    /\ h_pc = "exit"
    /\ h_phase_calls = <<"claude">>
    /\ h_stdout[1].success
    /\ "pre_debate_fallback" \in DOMAIN h_stdout[1]

\* C22 (as stated): every run of the debate path of main ends with exactly
\* one outcome object on standard output, a pre-flight failure, a Failure of
\* the phase call or a Success.
C22_OneOutcomeOnStdout ==
    (MainPath /\ h_pc = "exit") =>
        /\ Len(h_stdout) = 1
        /\ "success" \in DOMAIN h_stdout[1]

\* C23: the exit status is not zero only when main ended before any phase
\* call (arguments, credentials, provider unavailable with fallback
\* disabled); once the phase call was made, the process ends with status 0
\* and prints the dict of the call, a Failure as well as a Success.
C23_NonZeroOnlyBeforePhaseCall ==
    (MainPath /\ h_pc = "exit") =>
        /\ h_exit # 0 => h_phase_calls = <<>>
        /\ h_phase_calls # <<>> =>
               /\ h_exit = 0
               /\ Len(h_stdout) = 1
               /\ h_stdout[1].success \in BOOLEAN
        /\ h_phase_calls = <<>> => h_exit \in {1, 2}

\* The phase call ended in the Failure of a fallback run that followed a
\* primary Failure, and the process ended with status 0.
C23_FailedFallbackExitsZero ==
    /\ MainPath
    /\ h_pc = "exit"
    /\ Len(h_phase_calls) = 2
    /\ ~h_stdout[1].success
    /\ h_stdout[1].fallback_used
    /\ h_exit = 0

\* C24 (as stated): when a provider other than claude is asked for and none
\* of its credential variables is set, main ends before any canary request
\* and any phase call, and the object it prints is a failure of kind auth
\* without retry records.
C24_MissingCredentialsIsAuthOutcome ==
    (/\ MainPath
     /\ h_pc = "exit"
     /\ h_args.others_given
     /\ h_args.provider \in C20_Secondary
     /\ C20_NoCredentials(h_args.provider)) =>
        /\ h_canary = <<>>
        /\ h_phase_calls = <<>>
        /\ Len(h_stdout) = 1
        /\ h_stdout[1].success = FALSE
        /\ h_stdout[1].error_type = "auth"
        /\ RetryHistoryOf(h_stdout[1]) = <<>>

(***************************************************************************)
(* Properties of the command hooks                                         *)
(***************************************************************************)

\* The hook has run on a JSON document whose command calls the script and
\* is not a --validate-deps / --validate-api-key command.
HookValidated(hook) ==
    /\ g_hook = hook
    /\ g_pc = "done"
    /\ g_stdin = "json"
    /\ g_head = "python3 scripts/multi_llm_debater.py"
    /\ \A j \in DOMAIN g_args : g_args[j].flag # "--validate-deps"

\* The command has an argument named flag.
Given(flag) == \E j \in DOMAIN g_args : g_args[j].flag = flag

\* The value the command gives for flag is one of `valid`.
GivenValueIn(flag, valid) ==
    \A j \in DOMAIN g_args :
        g_args[j].flag = flag => \E i \in DOMAIN valid : g_args[j].value = valid[i]

\* C25 (as stated): for a command that calls multi_llm_debater.py,
\* validate_debate_args prints one decision, which is block exactly when
\* --provider, --phase or --topic is missing or the provider or phase value
\* is not a valid one; a missing --role does not block.
C25_BlocksExactlyInvalidCommands ==
    HookValidated("args") =>
        /\ Len(g_stdout) = 1
        /\ g_stdout[1].decision \in {"block", "allow"}
        /\ g_stdout[1].decision = "block"
               <=> \/ ~Given("--provider")
                   \/ ~Given("--phase")
                   \/ ~Given("--topic")
                   \/ ~GivenValueIn("--provider", VALID_PROVIDERS)
                   \/ ~GivenValueIn("--phase", VALID_PHASES)

\* C26 (as stated): for every command validate_debate_output validates and
\* every captured standard output, the hook prints exactly one decision
\* object, and its decision is allow.
C26_OutputHookAlwaysAllows ==
    HookValidated("output") =>
        /\ Len(g_stdout) = 1
        /\ g_stdout[1].decision = "allow"

(***************************************************************************)
(* Properties of with_retry under its timeout                              *)
(***************************************************************************)

\* The entries of the log whose event is `what`.
EventsOf(what) == SelectSeq(r_log, LAMBDA x : x.ev = what)

\* Index in the log of the call of attempt n (0: none).
CallIndex(n) ==
    IF \E i \in DOMAIN r_log : r_log[i].ev = "call" /\ r_log[i].attempt = n
    THEN CHOOSE i \in DOMAIN r_log : r_log[i].ev = "call" /\ r_log[i].attempt = n
    ELSE 0

\* C27: when every attempt fails with a retryable failure, with_retry calls
\* the operation exactly max_attempts times; the failure of attempt
\* max_attempts is raised at the time it happens, and neither a callback
\* nor a sleep follows it: max_attempts - 1 callbacks and sleeps in all.
C27_ExhaustionRaisesAtOnce ==
    (r_pc = "done" /\ r_outcome.kind = "raised:Exception") =>
        /\ Len(EventsOf("call")) = r_config.max_attempts
        /\ r_outcome.attempt = r_config.max_attempts
        /\ r_log[Len(r_log)] = LogEntry("fail", r_config.max_attempts, r_outcome.at, 0)
        /\ Len(EventsOf("on_retry")) = r_config.max_attempts - 1
        /\ Len(EventsOf("sleep")) = r_config.max_attempts - 1
        /\ \A i \in DOMAIN r_log :
               r_log[i].ev \in {"on_retry", "sleep"}
                   => r_log[i].attempt < r_config.max_attempts

\* All eight attempts of the eight-attempt configuration failed.
C27_EightAttemptsExhausted ==
    /\ r_pc = "done"
    /\ r_outcome.kind = "raised:Exception"
    /\ r_config.max_attempts = 8
    /\ Len(EventsOf("call")) = 8

\* The delays 1, 2, 4, 8, 16, 30, 30 of the default base delay, exponential
\* base and maximum delay.
C28_DefaultDelays == <<1, 2, 4, 8, 16, 30, 30>>

\* C28: the sleep after the failure of attempt n lasts
\* min(base_delay * exponential_base^(n-1), max_delay); with the default
\* base delay 1, exponential base 2 and maximum delay 30 the delays are
\* 1, 2, 4, 8, 16, 30, 30; delays never decrease and never exceed max_delay.
C28_BackoffDelays ==
    /\ \A i \in DOMAIN r_log :
           r_log[i].ev = "sleep" =>
               /\ r_log[i].attempt < r_config.max_attempts
               /\ r_log[i].delay <= r_config.max_delay
               /\ r_log[i].delay
                      = IF r_config.base_delay
                               * Pow(r_config.exponential_base, r_log[i].attempt - 1)
                               < r_config.max_delay
                        THEN r_config.base_delay
                                 * Pow(r_config.exponential_base, r_log[i].attempt - 1)
                        ELSE r_config.max_delay
    /\ \A i \in DOMAIN EventsOf("sleep") :
           /\ EventsOf("sleep")[i].attempt = i
           /\ i > 1 => EventsOf("sleep")[i - 1].delay <= EventsOf("sleep")[i].delay
           /\ (r_config.base_delay = 1 /\ r_config.exponential_base = 2
                   /\ r_config.max_delay = 30)
                  => EventsOf("sleep")[i].delay = C28_DefaultDelays[i]

\* The seventh failure under the default delays was followed by a sleep of
\* 30 seconds, as the sixth was.
C28_CappedTwice ==
    /\ Len(EventsOf("sleep")) = 7
    /\ EventsOf("sleep")[6].delay = 30
    /\ EventsOf("sleep")[7].delay = 30
    /\ EventsOf("sleep")[5].delay = 16

\* C29: within one call of with_retry, attempt n+1 begins only after
\* attempt n has failed, the callback for attempt n has run and the sleep
\* for attempt n has lasted its whole delay; no two attempts are in flight
\* together.
C29_AttemptsAreSequential ==
    /\ \A i \in DOMAIN r_log :
           (r_log[i].ev = "call" /\ r_log[i].attempt > 1) =>
               /\ i > 4
               /\ r_log[i - 4].ev = "call" /\ r_log[i - 4].attempt = r_log[i].attempt - 1
               /\ r_log[i - 3].ev = "fail" /\ r_log[i - 3].attempt = r_log[i].attempt - 1
               /\ r_log[i - 2].ev = "on_retry" /\ r_log[i - 2].attempt = r_log[i].attempt - 1
               /\ r_log[i - 1].ev = "sleep" /\ r_log[i - 1].attempt = r_log[i].attempt - 1
               /\ r_log[i - 4].at <= r_log[i - 3].at
               /\ r_log[i - 3].at <= r_log[i - 2].at
               /\ r_log[i - 2].at <= r_log[i - 1].at
               /\ r_log[i - 1].at + r_log[i - 1].delay <= r_log[i].at
    /\ \A i \in DOMAIN r_log :
           (r_log[i].ev = "call" /\ r_log[i].attempt = 1) => i = 1
    /\ Len(EventsOf("call")) - Len(EventsOf("fail")) - Len(EventsOf("return")) \in {0, 1}

\* The third attempt is in flight, four seconds or more after the second
\* one failed.
C29_ThirdAttemptInFlight ==
    /\ r_pc = "calling"
    /\ r_attempt = 3
    /\ r_config.max_attempts = 8
    /\ r_log[Len(r_log)].ev = "call"
    /\ r_log[Len(r_log)].at >= r_log[Len(r_log) - 3].at + 2
    /\ r_log[Len(r_log) - 1].delay = 2

C31_Metadata == {"retry_history", "fallback_used", "original_provider", "fallback_history"}

\* C31: when the primary run's first backend call returns a Success, the
\* dict returned has no retry_history, fallback_used, original_provider or
\* fallback_history key and no fallback run is made; and whenever no
\* fallback run is made, the dict returned is the primary run's dict.
C31_FirstAttemptSuccessIsBare ==
    pc = "returned" =>
        /\ Len(runs) = 1 => result = run_results[1].value
        /\ (/\ run_results[1].ended_by = "returned"
            /\ run_results[1].value.success
            /\ CallsOfRun("primary") = 1) =>
               /\ Len(runs) = 1
               /\ result.success
               /\ DOMAIN result \cap C31_Metadata = {}
               /\ \A j \in DOMAIN calls : calls[j].run = "primary"

\* A fenced reply of the first call was returned as a Success recovered by
\* block extraction.
C31_FencedReplyAtFirstAttempt ==
    /\ pc = "returned"
    /\ Len(calls) = 1
    /\ result.success
    /\ Get(result, "parse_recovery", NONE) = "extract_block"
    /\ fallback_config.enabled

(***************************************************************************)
(* Further properties of the health probes and the command line flow       *)
(***************************************************************************)

\* C32 (as stated): run_pre_debate_health_checks returns after every probe
\* it started has finished, with one status entry for every requested
\* provider other than claude, gemini, codex and gpt alike.
C32_EveryRequestedSecondaryHasStatus ==
    (h_mode = "checks" /\ h_pc = "checks_returned") =>
        /\ \A n \in Range(h_tasks) : h_probe[n] = "done"
        /\ \A i \in DOMAIN h_requested :
               h_requested[i] \in C20_Secondary
                   => /\ h_requested[i] \in DOMAIN h_health_results
                      /\ h_health_results[h_requested[i]].provider = h_requested[i]

\* The probe of n went through its canary request and has returned.
CanaryDone(n) ==
    /\ h_probe[n] = "done"
    /\ \E j \in DOMAIN h_canary : h_canary[j] = n

\* C33: a probe that sent its canary request returns a status, whatever the
\* request did: unavailable of kind timeout when it timed out, unavailable
\* with the kind classify_error gives the error text when the result was
\* unsuccessful or another exception was raised, and available with a
\* latency only when the result was successful.
C33_CanaryOutcomeBecomesStatus ==
    \A n \in ProbeNames :
        CanaryDone(n) =>
            /\ h_canary_result[n] # EmptyDict
            /\ h_status[n] # EmptyDict
            /\ h_status[n].provider = n
            /\ h_status[n].available
                   <=> /\ h_canary_result[n].did = "returned"
                       /\ h_canary_result[n].value.success
            /\ h_status[n].available =>
                   /\ "latency_ms" \in DOMAIN h_status[n]
                   /\ "error_type" \notin DOMAIN h_status[n]
            /\ h_canary_result[n].did = "raised" =>
                   IF h_canary_result[n].value.type = "TimeoutError"
                   THEN h_status[n].error_type = "timeout"
                   ELSE /\ h_status[n].error = h_canary_result[n].value.msg
                        /\ h_status[n].error_type
                               = classify_error(h_canary_result[n].value.msg)
            /\ (/\ h_canary_result[n].did = "returned"
                /\ ~h_canary_result[n].value.success) =>
                   h_status[n].error_type
                       = classify_error(Get(h_canary_result[n].value, "error", ""))

\* The canary request for gemini was reset by the peer, and the probe
\* returned an unavailable status of kind unknown.
C33_ConnectionErrorClassified ==
    /\ CanaryDone("gemini")
    /\ h_canary_result["gemini"].did = "raised"
    /\ ~h_status["gemini"].available
    /\ Get(h_status["gemini"], "error", NONE) = "connection reset by peer"
    /\ h_status["gemini"].error_type = "unknown"

\* C34 (as stated): gpt and codex are one backend identity and behave alike
\* everywhere: the same credential variables, the same backend, and the same
\* pre-flight probing and routing in main. main probes codex before the phase
\* call (unless --skip-health-check), so the same holds of gpt: once main
\* has passed the pre-flight stage for either name, a health status for that
\* name has been obtained.
C34_GptAndCodexBehaveAlike ==
    /\ ENV_VARS["gpt"] = ENV_VARS["codex"]
    /\ PROVIDER_MAP_get("gpt") = PROVIDER_MAP_get("codex")
    /\ (/\ MainPath
        /\ h_args.provider \in {"gpt", "codex"}
        /\ h_args.others_given
        /\ ~h_args.skip_health_check
        /\ validate_api_keys(h_args.provider, h_env).valid
        /\ h_pc \in {"exec", "exit"})
           => /\ h_args.provider \in DOMAIN h_health_results
              /\ h_canary = <<h_args.provider>>

(***************************************************************************)
(* Further properties of robust_json_parse                                 *)
(***************************************************************************)

\* The text is a json fence, a newline, some inner text, a newline and the
\* closing fence.
C35_IsFenced ==
    /\ Len(p_text) >= 12
    /\ Slice(p_text, 0, 8) = FENCE_JSON \o "\n"
    /\ Slice(p_text, Len(p_text) - 4, Len(p_text)) = "\n" \o FENCE

C35_Inner == Slice(p_text, 8, Len(p_text) - 4)

\* C35 (as stated): on a well-formed JSON text robust_json_parse returns
\* the value it encodes with strategy direct; on a well-formed JSON text
\* wrapped in a fenced code block it returns the value the inner text
\* encodes with strategy extract_block.
C35_RoundTrip ==
    p_stage = "parsed" =>
        /\ json_loads(p_text).ok =>
               p_result = [parsed |-> TRUE,
                           data |-> json_loads(p_text).val,
                           strategy_used |-> "direct"]
        /\ (C35_IsFenced /\ json_loads(C35_Inner).ok) =>
               p_result = [parsed |-> TRUE,
                           data |-> json_loads(C35_Inner).val,
                           strategy_used |-> "extract_block"]

(***************************************************************************)
(* Termination and resources of run_phase_with_fallback                    *)
(***************************************************************************)

\* Control is back with the caller of run_phase_with_fallback.
C36_Ended == pc \in {"returned", "raised"}

C37_IndexOf(what, n) ==
    IF \E i \in DOMAIN r_log : r_log[i].ev = what /\ r_log[i].attempt = n
    THEN CHOOSE i \in DOMAIN r_log : r_log[i].ev = what /\ r_log[i].attempt = n
    ELSE 0

\* C37: when with_retry returns, it returns at the first attempt k whose call
\* returned, func was called exactly k times (attempts 1..k, the last log
\* entry being the return of attempt k) and on_retry exactly k - 1 times,
\* once for each failed attempt 1..k-1, after its failure and before its
\* sleep.
C37_ReturnsAtFirstSuccess ==
    (r_pc = "done" /\ r_outcome.kind = "returned") =>
        LET k == r_outcome.attempt
        IN  /\ k \in 1..r_config.max_attempts
            /\ Len(EventsOf("call")) = k
            /\ \A j \in 1..k : EventsOf("call")[j].attempt = j
            /\ Len(EventsOf("return")) = 1
            /\ r_log[Len(r_log)] = LogEntry("return", k, r_outcome.at, 0)
            /\ Len(EventsOf("fail")) = k - 1
            /\ Len(EventsOf("on_retry")) = k - 1
            /\ Len(EventsOf("sleep")) = k - 1
            /\ \A j \in 1..(k - 1) :
                   /\ C37_IndexOf("fail", j) > C37_IndexOf("call", j)
                   /\ C37_IndexOf("on_retry", j) = C37_IndexOf("fail", j) + 1
                   /\ C37_IndexOf("sleep", j) = C37_IndexOf("on_retry", j) + 1
                   /\ C37_IndexOf("call", j + 1) = C37_IndexOf("sleep", j) + 1

\* The third attempt was the first to succeed.
C37_ThirdAttemptSucceeded ==
    /\ r_pc = "done"
    /\ r_outcome.kind = "returned"
    /\ r_outcome.attempt = 3
    /\ Len(EventsOf("on_retry")) = 2

(***************************************************************************)
(* Further properties of the histories                                     *)
(***************************************************************************)

\* Error texts of the exceptions with_retry retries.
C38_RetriedErrors == {e.msg : e \in {x \in BackendErrors : x.type # "NonRetryableError"}}

\* history holds the records of attempts 1, 2, ..., k in order, with
\* k <= max_attempts - 1, each of a failure with_retry retries.
C38_WellNumbered(history) ==
    /\ Len(history) <= RETRY_CONFIG.max_attempts - 1
    /\ \A j \in DOMAIN history :
           /\ history[j].attempt = j
           /\ history[j].error \in C38_RetriedErrors

\* C38: in the dict of every run, and in the list on_retry is filling, the
\* retry records carry the attempt numbers 1, 2, ..., k in order, k is at
\* most max_attempts - 1, and each record is of a failed call of that run
\* that was followed by a backoff: the run made k + 1 calls, or k when the
\* deadline cut it off during the backoff after attempt k.
C38_RetryHistoryNumbered ==
    /\ C38_WellNumbered(retry_attempts)
    /\ pc = "returned" => C38_WellNumbered(RetryHistoryOf(result))
    /\ \A i \in DOMAIN run_results :
           LET history == RetryHistoryOf(run_results[i].value)
               made == CallsOfRun(run_results[i].run)
           IN  /\ C38_WellNumbered(history)
               /\ IF run_results[i].ended_by = "deadline"
                  THEN made \in {Len(history), Len(history) + 1}
                  ELSE made = Len(history) + 1

\* The deadline cut a run off during the backoff after its second failed
\* attempt: two records, two calls.
C38_CutOffInSecondBackoff ==
    \E i \in DOMAIN run_results :
        /\ run_results[i].ended_by = "deadline"
        /\ Len(RetryHistoryOf(run_results[i].value)) = 2
        /\ CallsOfRun(run_results[i].run) = 2

\* e names an original backend other than the fallback backend and one of
\* the five kinds that allow a fallback.
C39_WellFormedEvent(e) ==
    /\ e.original_provider = provider
    /\ e.fallback_provider # e.original_provider
    /\ PROVIDER_MAP_get(e.fallback_provider) \notin {NONE, e.original_provider}
    /\ e.error_type \in Keys(FALLBACK_ERROR_PATTERNS)
    /\ e.error_type \notin {"auth", "invalid_input", "content_policy", "unknown"}

\* C39: every FallbackEvent built, and every one in the fallback_history of
\* the dict returned, names an original backend different from the fallback
\* backend and an error_type among rate_limit, quota, timeout,
\* service_unavailable and overloaded, also when the primary run was ended
\* by the deadline.
C39_FallbackEventsWellFormed ==
    /\ event # EmptyDict => C39_WellFormedEvent(event)
    /\ \A j \in DOMAIN fallback_history : C39_WellFormedEvent(fallback_history[j])
    /\ (pc = "returned" /\ "fallback_history" \in DOMAIN result) =>
           /\ result.fallback_history # <<>>
           /\ \A j \in DOMAIN result.fallback_history :
                  C39_WellFormedEvent(result.fallback_history[j])

\* The primary run was ended by the deadline and the dict returned carries
\* the event of the fallback, of kind timeout.
C39_EventAfterDeadline ==
    /\ pc = "returned"
    /\ run_results # <<>>
    /\ run_results[1].ended_by = "deadline"
    /\ "fallback_history" \in DOMAIN result
    /\ result.fallback_history[1].error_type = "timeout"

(***************************************************************************)
(* Further properties of run_phase                                         *)
(***************************************************************************)

\* C40 (as stated): a run ends with a dict tagged success only when the
\* Model Backend call that produced it reported success: a result object
\* flagged unsuccessful gives a Failure.
C40_SuccessOnlyFromSuccessfulReply ==
    [][(pc = "calling" /\ pc' = "run_done" /\ result'.success) =>
           \E reply \in BackendReplies :
               /\ reply.success
               /\ result' = ReturnFor(run_provider, phase, reply, retry_attempts)]_vars

====
